---- MODULE Spec2Model ----
(***************************************************************************)
(* Model of rat's log-ingestion and session-reconciliation core:           *)
(*   rat/claude/watcher.py  (line parsing, extraction, debounced tailing)  *)
(*   rat/claude/reader.py   (on-demand metrics, liveness, recent activity) *)
(*   rat/session/tracker.py (persisted WorktreeSession and its operations) *)
(*                                                                         *)
(* A log file is a sequence of one-character strings.  The JSON lines the  *)
(* agent writes are spelled with a small alphabet:                         *)
(*     { u T }        a "user" record with timestamp digit T               *)
(*     { a T I O }    an "assistant" record, timestamp T, usage I / O      *)
(*     { s }          a record of another type ("summary")                 *)
(* Any other line is not valid JSON.  "\n" terminates a line.              *)
(***************************************************************************)
EXTENDS Integers, Sequences, FiniteSets, TLC

\* ------------------------------------------------------------------ bounds
MaxTicks == 1           \* clock ticks taken by the wall clock
MaxLogRecords == 1      \* records the agent appends to the log directory
MaxOps == 3             \* tracker operations that write the session file
MaxLoopTicks == 4       \* event-loop clock ticks on the watch path
MaxWatchRecords == 1    \* records written to a watched file
MaxEvents == 3          \* file-system events delivered to the handler

\* --------------------------------------------------------------- constants
RecentMinutes == 5      \* get_recent_activity(minutes=5)
ClockStep == RecentMinutes   \* minutes per wall-clock tick of the model
TailWindow == 50000     \* get_latest_interaction read_size
DebounceMs == 500       \* ClaudeConversationHandler._debounce_ms
LoopStep == DebounceMs \div 2   \* milliseconds per event-loop tick of the model

NoneT == -1             \* Optional[datetime] = None
NL == "\n"

Files == {"c1.jsonl", "c2.jsonl"}
FileOrder == <<"c1.jsonl", "c2.jsonl">>
SessionLogs == {"c1.jsonl"}       \* the log the agent writes while a session is tracked

\* ------------------------------------------------------------ text helpers
Digits == <<"0", "1", "2", "3", "4", "5", "6", "7", "8", "9">>

DigitSet == {Digits[i] : i \in 1..Len(Digits)}

IsDigit(c) == c \in DigitSet

DigitValue == [c \in DigitSet |-> (CHOOSE i \in 1..Len(Digits) : Digits[i] = c) - 1]

DigitVal(c) == DigitValue[c]

DigitOf(n) == Digits[n + 1]

Max(a, b) == IF a >= b THEN a ELSE b

Min(a, b) == IF a <= b THEN a ELSE b

IsSpace(c) == c = NL \/ c = " "

RECURSIVE lstrip(_)
lstrip(s) == IF s # <<>> /\ IsSpace(Head(s)) THEN lstrip(Tail(s)) ELSE s

RECURSIVE rstrip(_)
rstrip(s) ==
  IF s # <<>> /\ IsSpace(s[Len(s)]) THEN rstrip(SubSeq(s, 1, Len(s) - 1)) ELSE s

strip(s) == rstrip(lstrip(s))

\* "not line.strip()": nothing but white space
IsBlank(s) == \A k \in 1..Len(s) : IsSpace(s[k])

\* str.split("\n"): the pieces between newlines, empty pieces included
RECURSIVE split(_)
split(s) ==
  IF \A i \in 1..Len(s) : s[i] # NL THEN <<s>>
  ELSE LET k == CHOOSE i \in 1..Len(s) :
                  s[i] = NL /\ \A j \in 1..(i - 1) : s[j] # NL
       IN <<SubSeq(s, 1, k - 1)>> \o split(SubSeq(s, k + 1, Len(s)))

\* "for line in f": lines with their newline, a last unterminated line too
RECURSIVE readlines(_)
readlines(s) ==
  IF s = <<>> THEN <<>>
  ELSE IF \A i \in 1..Len(s) : s[i] # NL THEN <<s>>
  ELSE LET k == CHOOSE i \in 1..Len(s) :
                  s[i] = NL /\ \A j \in 1..(i - 1) : s[j] # NL
       IN <<SubSeq(s, 1, k)>> \o readlines(SubSeq(s, k + 1, Len(s)))

\* ------------------------------------------------- watcher.py: the parsers
VARIABLE now        \* wall clock, minutes (datetime.utcnow())
VARIABLE qret       \* what the query just performed returned

\* a timestamp is one digit, or "?" for a string fromisoformat rejects
IsStamp(c) == IsDigit(c) \/ c = "?"

\* json.loads gives None (not JSON), a dict, or another JSON value; of a dict
\* the model keeps: type, timestamp, message.role ("None" when absent), usage,
\* and whether message and usage are objects (shape)
NoEntry ==
  [json |-> "None", type |-> "None", timestamp |-> "", role |-> "None",
   shape |-> "ok", input_tokens |-> 0, output_tokens |-> 0]

IsUserLine(t) ==
  Len(t) = 4 /\ t[1] = "{" /\ t[2] = "u" /\ IsStamp(t[3]) /\ t[4] = "}"

IsAssistantLine(t) ==
  /\ Len(t) = 6 /\ t[1] = "{" /\ t[2] = "a" /\ IsStamp(t[3])
  /\ IsDigit(t[4]) /\ IsDigit(t[5]) /\ t[6] = "}"

IsOtherLine(t) == t = <<"{", "s", "}">>

\* { u T a } and { u T x }: a record of type user whose message.role is
\* "assistant" or "system"
IsRoleLine(t) ==
  /\ Len(t) = 5 /\ t[1] = "{" /\ t[2] = "u" /\ IsStamp(t[3])
  /\ t[4] \in {"a", "x"} /\ t[5] = "}"

\* { u m }: a record of type user whose message is a string, not an object
IsBadShapeLine(t) == t = <<"{", "u", "m", "}">>

\* [ 0 ]: a JSON value that is not an object;  [ ]: an empty list
IsListLine(t) == t = <<"[", "0", "]">>

IsEmptyListLine(t) == t = <<"[", "]">>

\* json.loads(line.strip()), None on JSONDecodeError
parse_jsonl_line(line) ==
  LET t == strip(line) IN
  IF IsUserLine(t)
    THEN [NoEntry EXCEPT !.json = "dict", !.type = "user", !.timestamp = t[3]]
  ELSE IF IsAssistantLine(t)
    THEN [NoEntry EXCEPT !.json = "dict", !.type = "assistant", !.timestamp = t[3],
                         !.input_tokens = DigitVal(t[4]),
                         !.output_tokens = DigitVal(t[5])]
  ELSE IF IsOtherLine(t)
    THEN [NoEntry EXCEPT !.json = "dict", !.type = "summary"]
  ELSE IF IsRoleLine(t)
    THEN [NoEntry EXCEPT !.json = "dict", !.type = "user", !.timestamp = t[3],
                         !.role = IF t[4] = "a" THEN "assistant" ELSE "system"]
  ELSE IF IsBadShapeLine(t)
    THEN [NoEntry EXCEPT !.json = "dict", !.type = "user", !.shape = "bad"]
  ELSE IF IsListLine(t) THEN [NoEntry EXCEPT !.json = "list"]
  ELSE IF IsEmptyListLine(t) THEN [NoEntry EXCEPT !.json = "falsy"]
  ELSE NoEntry

NoInteraction ==
  [role |-> "None", timestamp |-> NoneT, tzinfo |-> "None",
   tokens_in |-> 0, tokens_out |-> 0]

\* entry.get / message.get / usage.get on a value that is not a dict
AttributeError == [NoInteraction EXCEPT !.role = "AttributeError"]

\* a timestamp that parses is an aware datetime ("Z" becomes "+00:00");
\* one that does not is replaced by datetime.utcnow(), a naive datetime
extract_interaction(entry) ==
  IF entry.json # "dict" THEN AttributeError
  ELSE IF entry.type \notin {"user", "assistant"} THEN NoInteraction
  ELSE IF entry.shape # "ok" THEN AttributeError
  ELSE [role |-> IF entry.role = "None" THEN entry.type ELSE entry.role,
        timestamp |-> IF IsDigit(entry.timestamp)
                        THEN DigitVal(entry.timestamp) * ClockStep ELSE now,
        tzinfo |-> IF IsDigit(entry.timestamp) THEN "utc" ELSE "None",
        tokens_in |-> entry.input_tokens,
        tokens_out |-> entry.output_tokens]

\* "if entry:" - None and an empty JSON value are skipped
Truthy(entry) == entry # NoEntry /\ entry.json # "falsy"

\* the loop over the lines raises: a line whose extraction raises is reached
RECURSIVE ExtractRaises(_)
ExtractRaises(lines) ==
  IF lines = <<>> THEN FALSE
  ELSE LET line == Head(lines)
           entry == parse_jsonl_line(line)
       IN IF strip(line) = <<>> \/ ~Truthy(entry) THEN ExtractRaises(Tail(lines))
          ELSE extract_interaction(entry) = AttributeError
                 \/ ExtractRaises(Tail(lines))

\* variant: a line that is not JSON ends the loop
RECURSIVE ExtractLines_stop_at_invalid(_)
ExtractLines_stop_at_invalid(lines) ==
  IF lines = <<>> THEN <<>>
  ELSE LET line == Head(lines)
           entry == parse_jsonl_line(line)
       IN IF strip(line) = <<>> THEN ExtractLines_stop_at_invalid(Tail(lines))
          ELSE IF ~Truthy(entry) THEN <<>>
          ELSE IF extract_interaction(entry) = AttributeError THEN <<>>
          ELSE IF extract_interaction(entry) = NoInteraction
            THEN ExtractLines_stop_at_invalid(Tail(lines))
          ELSE <<extract_interaction(entry)>>
                 \o ExtractLines_stop_at_invalid(Tail(lines))

\* the interactions of a sequence of lines, in order: blank lines, lines that
\* are not JSON and records that are not user/assistant are skipped; an
\* exception raised by extract_interaction ends the loop
RECURSIVE ExtractLines(_)
ExtractLines(lines) ==
  IF lines = <<>> THEN <<>>
  ELSE LET line == Head(lines)
           entry == parse_jsonl_line(line)
           i == extract_interaction(entry)
       IN IF IsBlank(line) THEN ExtractLines(Tail(lines))
          ELSE IF ~Truthy(entry) THEN ExtractLines(Tail(lines))
          ELSE IF i = AttributeError THEN <<>>
          ELSE IF i = NoInteraction THEN ExtractLines(Tail(lines))
          ELSE <<i>> \o ExtractLines(Tail(lines))

parse_conversation_file(bytes) == ExtractLines(readlines(bytes))

Reverse(s) == [i \in 1..Len(s) |-> s[Len(s) + 1 - i]]

\* the loop of get_latest_interaction: the first interaction found is
\* returned; an exception raised on the way gives None
RECURSIVE FirstInteraction(_)
FirstInteraction(lines) ==
  IF lines = <<>> THEN NoInteraction
  ELSE LET line == Head(lines)
           entry == parse_jsonl_line(line)
           i == extract_interaction(entry)
       IN IF IsBlank(line) THEN FirstInteraction(Tail(lines))
          ELSE IF ~Truthy(entry) THEN FirstInteraction(Tail(lines))
          ELSE IF i = AttributeError THEN NoInteraction
          ELSE IF i = NoInteraction THEN FirstInteraction(Tail(lines))
          ELSE i

get_latest_interaction(bytes) ==
  LET file_size == Len(bytes)
      read_size == Min(TailWindow, file_size)
      content == SubSeq(bytes, file_size - read_size + 1, file_size)
  IN IF file_size = 0 THEN NoInteraction
     ELSE FirstInteraction(Reverse(split(strip(content))))

\* the serialisation of the records the agent writes
UserRecord(t) == <<"{", "u", DigitOf(t), "}", NL>>

AssistantRecord(t, i, o) == <<"{", "a", DigitOf(t), DigitOf(i), DigitOf(o), "}", NL>>

OtherRecord == <<"{", "s", "}", NL>>

\* lines that are not such records: not JSON, a JSON list, a user record
\* whose message is a string, one whose message.role is "system", one whose
\* timestamp does not parse
Malformed == <<"{", "u", NL>>

ListLine == <<"[", "0", "]", NL>>

BadShapeRecord == <<"{", "u", "m", "}", NL>>

SystemRoleRecord == <<"{", "u", "0", "x", "}", NL>>

BadStampRecord == <<"{", "u", "?", "}", NL>>

\* ------------------------------------------------------- reader.py: queries
ZeroMetrics ==
  [interactions |-> 0, tokens_in |-> 0, tokens_out |-> 0,
   first_timestamp |-> NoneT, last_timestamp |-> NoneT]

\* get_claude_project_path: the project's log directory, None if it is absent
get_claude_project_path(dir) == IF dir THEN "dir" ELSE "None"

\* SessionTracker.claude_reader: the reader is built on first use and kept;
\* ClaudeReader.__init__ resolves claude_path once
claude_reader(path, dir) == IF path = "unset" THEN get_claude_project_path(dir) ELSE path

has_claude_data(path, dir) == path # "None" /\ dir

\* the names claude_path.glob("*.jsonl") can yield: the conversations and a
\* sub-agent's log
DirNames == FileOrder \o <<"agent-1.jsonl">>

\* variant: no name counts as a sub-agent's
StartsWithAgent_never(p) == FALSE

\* name.startswith("agent-")
StartsWithAgent(p) == p = "agent-1.jsonl"

\* the sub-agent's log: in every log directory, newer than any conversation,
\* with one assistant record
AgentLog ==
  [exists |-> TRUE, bytes |-> AssistantRecord(9, 9, 9), mtime |-> 9 * ClockStep]

\* the file of a name of the directory
ReadLog(lg, p) == IF p \in Files THEN lg[p] ELSE AgentLog

RECURSIVE InsertByMtime(_, _, _)
InsertByMtime(f, sorted, lg) ==
  IF sorted = <<>> THEN <<f>>
  ELSE IF ReadLog(lg, f).mtime >= ReadLog(lg, Head(sorted)).mtime THEN <<f>> \o sorted
  ELSE <<Head(sorted)>> \o InsertByMtime(f, Tail(sorted), lg)

RECURSIVE SortByMtime(_, _)
SortByMtime(fs, lg) ==
  IF fs = <<>> THEN <<>>
  ELSE InsertByMtime(Head(fs), SortByMtime(Tail(fs), lg), lg)

\* variant: the names are listed without looking for the directory
get_conversation_files_unchecked(path, dir, lg) == SortByMtime(FileOrder, lg)

get_conversation_files(path, dir, lg) ==
  IF path = "None" \/ ~dir THEN <<>>
  ELSE SortByMtime(SelectSeq(DirNames, LAMBDA f : ~StartsWithAgent(f) /\ ReadLog(lg, f).exists),
                   lg)

\* variant: interactions of every role are counted
MetricsStep_all_roles(m, i, since) ==
  IF since # NoneT /\ i.timestamp <= since THEN m
  ELSE [interactions |-> m.interactions + 1,
        tokens_in |-> m.tokens_in + i.tokens_in,
        tokens_out |-> m.tokens_out + i.tokens_out,
        first_timestamp |->
          IF m.first_timestamp = NoneT \/ i.timestamp < m.first_timestamp
            THEN i.timestamp ELSE m.first_timestamp,
        last_timestamp |->
          IF m.last_timestamp = NoneT \/ i.timestamp > m.last_timestamp
            THEN i.timestamp ELSE m.last_timestamp]

\* variant: an interaction at since itself passes the filter
MetricsStep_inclusive(m, i, since) ==
  IF since # NoneT /\ i.timestamp < since THEN m
  ELSE [interactions |-> m.interactions + (IF i.role = "assistant" THEN 1 ELSE 0),
        tokens_in |-> m.tokens_in + (IF i.role = "assistant" THEN i.tokens_in ELSE 0),
        tokens_out |-> m.tokens_out + (IF i.role = "assistant" THEN i.tokens_out ELSE 0),
        first_timestamp |->
          IF m.first_timestamp = NoneT \/ i.timestamp < m.first_timestamp
            THEN i.timestamp ELSE m.first_timestamp,
        last_timestamp |->
          IF m.last_timestamp = NoneT \/ i.timestamp > m.last_timestamp
            THEN i.timestamp ELSE m.last_timestamp]

\* variant: only an assistant interaction moves the timestamps, and the first
\* one is taken from the first interaction met
MetricsStep_first_met(m, i, since) ==
  IF since # NoneT /\ i.timestamp <= since THEN m
  ELSE [interactions |-> m.interactions + (IF i.role = "assistant" THEN 1 ELSE 0),
        tokens_in |-> m.tokens_in + (IF i.role = "assistant" THEN i.tokens_in ELSE 0),
        tokens_out |-> m.tokens_out + (IF i.role = "assistant" THEN i.tokens_out ELSE 0),
        first_timestamp |->
          IF m.first_timestamp = NoneT /\ i.role = "assistant"
            THEN i.timestamp ELSE m.first_timestamp,
        last_timestamp |->
          IF m.last_timestamp = NoneT \/ i.timestamp > m.last_timestamp
            THEN i.timestamp ELSE m.last_timestamp]

\* one iteration of the loop body of calculate_metrics
MetricsStep(m, i, since) ==
  IF since # NoneT /\ i.timestamp <= since THEN m
  ELSE [interactions |-> m.interactions + (IF i.role = "assistant" THEN 1 ELSE 0),
        tokens_in |-> m.tokens_in + (IF i.role = "assistant" THEN i.tokens_in ELSE 0),
        tokens_out |-> m.tokens_out + (IF i.role = "assistant" THEN i.tokens_out ELSE 0),
        first_timestamp |->
          IF m.first_timestamp = NoneT \/ i.timestamp < m.first_timestamp
            THEN i.timestamp ELSE m.first_timestamp,
        last_timestamp |->
          IF m.last_timestamp = NoneT \/ i.timestamp > m.last_timestamp
            THEN i.timestamp ELSE m.last_timestamp]

\* the comparisons "interaction.timestamp < metrics.first_timestamp" and
\* "> metrics.last_timestamp" raise TypeError when one datetime is naive and
\* the other aware; tz is the tzinfo of the stored timestamps, "unset" while
\* they are None
CompareRaises(tz, i, since) ==
  /\ ~(since # NoneT /\ i.timestamp <= since)
  /\ tz # "unset" /\ tz # i.tzinfo

\* the loop over interactions: acc is the metrics built so far, the tzinfo of
\* their timestamps, and whether TypeError was raised
RECURSIVE FoldInteractions(_, _, _)
FoldInteractions(acc, ints, since) ==
  IF ints = <<>> \/ acc.raised THEN acc
  ELSE LET i == Head(ints)
           passes == ~(since # NoneT /\ i.timestamp <= since)
       IN IF CompareRaises(acc.tzinfo, i, since)
            THEN [acc EXCEPT !.raised = TRUE]
            ELSE FoldInteractions(
                   [metrics |-> MetricsStep(acc.metrics, i, since),
                    tzinfo |-> IF passes THEN i.tzinfo ELSE acc.tzinfo,
                    raised |-> FALSE],
                   Tail(ints), since)

\* variant: the metrics start again at every file
RECURSIVE FoldFiles_reset(_, _, _, _)
FoldFiles_reset(acc, fs, lg, since) ==
  IF fs = <<>> THEN acc
  ELSE FoldFiles_reset(
         FoldInteractions([metrics |-> ZeroMetrics, tzinfo |-> "unset", raised |-> FALSE],
                          parse_conversation_file(ReadLog(lg, Head(fs)).bytes), since),
         Tail(fs), lg, since)

RECURSIVE FoldFiles(_, _, _, _)
FoldFiles(acc, fs, lg, since) ==
  IF fs = <<>> THEN acc
  ELSE FoldFiles(FoldInteractions(acc, parse_conversation_file(ReadLog(lg, Head(fs)).bytes), since),
                 Tail(fs), lg, since)

\* variant: the reader goes on from the metrics it returned last
calculate_metrics_running(path, dir, lg, since) ==
  FoldFiles([metrics |-> qret.metrics, tzinfo |-> "unset", raised |-> FALSE],
            get_conversation_files(path, dir, lg), lg, since)

\* calculate_metrics: .metrics is the value returned, .raised says that the
\* call raised TypeError instead of returning
calculate_metrics(path, dir, lg, since) ==
  FoldFiles([metrics |-> ZeroMetrics, tzinfo |-> "unset", raised |-> FALSE],
            get_conversation_files(path, dir, lg), lg, since)

\* list.sort(key=timestamp, reverse=True): stable, newest first
RECURSIVE InsertNewestFirst(_, _)
InsertNewestFirst(i, sorted) ==
  IF sorted = <<>> THEN <<i>>
  ELSE IF Head(sorted).timestamp >= i.timestamp
    THEN <<Head(sorted)>> \o InsertNewestFirst(i, Tail(sorted))
  ELSE <<i>> \o sorted

RECURSIVE SortNewestFirst(_)
SortNewestFirst(ints) ==
  IF ints = <<>> THEN <<>>
  ELSE InsertNewestFirst(ints[Len(ints)], SortNewestFirst(SubSeq(ints, 1, Len(ints) - 1)))

RECURSIVE FilteredInteractions(_, _, _)
FilteredInteractions(fs, lg, since) ==
  IF fs = <<>> THEN <<>>
  ELSE SelectSeq(parse_conversation_file(ReadLog(lg, Head(fs)).bytes),
                 LAMBDA i : since = NoneT \/ i.timestamp > since)
       \o FilteredInteractions(Tail(fs), lg, since)

\* limit: Optional[int] = None
NoneLimit == NoneT

\* read_all_interactions: .value is the list returned, newest first, cut to
\* limit under "if limit:", which None and 0 both fail; .raised says that the
\* sort raised TypeError (it compares a naive with an aware timestamp)
read_all_interactions(path, dir, lg, since, limit) ==
  LET all == FilteredInteractions(get_conversation_files(path, dir, lg), lg, since)
      mixed == \E j, k \in 1..Len(all) : all[j].tzinfo # all[k].tzinfo
      sorted == SortNewestFirst(all)
  IN [value |-> IF mixed THEN <<>>
                ELSE IF limit # NoneLimit /\ limit # 0
                  THEN SubSeq(sorted, 1, Min(limit, Len(sorted)))
                ELSE sorted,
      raised |-> mixed]

ProcResults == {"found", "not_found", "error"}

\* variant: a failed query counts as a running process
is_claude_running_error_true(proc) ==
  IF proc = "error" THEN TRUE ELSE proc = "found"

\* pgrep's return code is 0 when a process matches; any exception gives False
is_claude_running(proc) ==
  IF proc = "error" THEN FALSE ELSE proc = "found"

get_recent_activity(path, dir, lg, clock) ==
  LET cutoff == clock - RecentMinutes
      fs == get_conversation_files(path, dir, lg)
  IN \E k \in 1..Len(fs) :
       /\ ~(ReadLog(lg, fs[k]).mtime < cutoff)
       /\ LET latest == get_latest_interaction(ReadLog(lg, fs[k]).bytes)
          IN latest # NoInteraction /\ latest.timestamp > cutoff

\* ------------------------------------------------- tracker.py: the session
NoneId == 0

StatusValue(st) ==
  CASE st = "READY" -> "ready" [] st = "ACTIVE" -> "active"
    [] st = "PAUSED" -> "paused" [] st = "STOPPED" -> "stopped"

SessionStatus(v) ==
  CASE v = "ready" -> "READY" [] v = "active" -> "ACTIVE"
    [] v = "paused" -> "PAUSED" [] v = "stopped" -> "STOPPED"

duration_seconds(m) ==
  IF m.first_timestamp # NoneT /\ m.last_timestamp # NoneT
    THEN (m.last_timestamp - m.first_timestamp) * 60 ELSE 0

to_dict(s) ==
  [id |-> s.id, status |-> StatusValue(s.status), created_at |-> s.created_at,
   started_at |-> s.started_at, stopped_at |-> s.stopped_at,
   plan_file |-> s.plan_file,
   metrics |-> [interactions |-> s.metrics.interactions,
                tokens_in |-> s.metrics.tokens_in,
                tokens_out |-> s.metrics.tokens_out,
                duration_seconds |-> duration_seconds(s.metrics),
                first_timestamp |-> s.metrics.first_timestamp,
                last_timestamp |-> s.metrics.last_timestamp]]

from_dict(d) ==
  [id |-> d.id, status |-> SessionStatus(d.status), created_at |-> d.created_at,
   started_at |-> d.started_at, stopped_at |-> d.stopped_at,
   plan_file |-> d.plan_file,
   metrics |-> [interactions |-> d.metrics.interactions,
                tokens_in |-> d.metrics.tokens_in,
                tokens_out |-> d.metrics.tokens_out,
                first_timestamp |-> d.metrics.first_timestamp,
                last_timestamp |-> d.metrics.last_timestamp]]

\* variant: create hands out an id at once
NewSession_eager_id(clock, plan) ==
  [id |-> NoneId + 1, status |-> "READY", created_at |-> clock, started_at |-> NoneT,
   stopped_at |-> NoneT, plan_file |-> plan, metrics |-> ZeroMetrics]

NewSession(clock, plan) ==
  [id |-> NoneId, status |-> "READY", created_at |-> clock, started_at |-> NoneT,
   stopped_at |-> NoneT, plan_file |-> plan, metrics |-> ZeroMetrics]

\* variant: a stopped session keeps the metrics it was saved with
_update_metrics_frozen(s, path, dir, lg) ==
  IF ~has_claude_data(path, dir) \/ s.status = "STOPPED" THEN s
  ELSE [s EXCEPT !.metrics = calculate_metrics(path, dir, lg, s.created_at).metrics]

_update_metrics(s, path, dir, lg) ==
  IF ~has_claude_data(path, dir) THEN s
  ELSE [s EXCEPT !.metrics = calculate_metrics(path, dir, lg, s.created_at).metrics]

\* some log holds a timestamp that does not parse: only then is there a naive
\* datetime (the utcnow() fallback) among the interactions
HasNaiveTimestamp(lg) ==
  \E f \in Files : \E k \in 1..Len(lg[f].bytes) : lg[f].bytes[k] = "?"

\* _update_metrics does not return: calculate_metrics raised TypeError
_update_metrics_raises(s, path, dir, lg) ==
  /\ has_claude_data(path, dir)
  /\ HasNaiveTimestamp(lg)
  /\ calculate_metrics(path, dir, lg, s.created_at).raised

\* variant: no early return for a stopped session
_update_status_unguarded(status, running, recent) ==
  IF running
    THEN IF recent THEN "ACTIVE"
         ELSE IF status = "ACTIVE" THEN "PAUSED" ELSE status
  ELSE IF status = "ACTIVE" THEN "PAUSED" ELSE status

\* variant: a running process without recent activity leaves ACTIVE alone
_update_status_idle_active(status, running, recent) ==
  IF status = "STOPPED" THEN status
  ELSE IF running
    THEN IF recent THEN "ACTIVE" ELSE status
  ELSE IF status = "ACTIVE" THEN "PAUSED" ELSE status

\* variant: a process that is not running leaves ACTIVE alone
_update_status_gone_active(status, running, recent) ==
  IF status = "STOPPED" THEN status
  ELSE IF running
    THEN IF recent THEN "ACTIVE"
         ELSE IF status = "ACTIVE" THEN "PAUSED" ELSE status
  ELSE status

_update_status(status, running, recent) ==
  IF status = "STOPPED" THEN status
  ELSE IF running
    THEN IF recent THEN "ACTIVE"
         ELSE IF status = "ACTIVE" THEN "PAUSED" ELSE status
  ELSE IF status = "ACTIVE" THEN "PAUSED" ELSE status

\* load() of an existing session file: from_dict, _update_metrics, _update_status
LoadSession(d, path, dir, lg, clock, proc) ==
  LET s == _update_metrics(from_dict(d), path, dir, lg)
  IN [s EXCEPT !.status =
        _update_status(s.status, is_claude_running(proc),
                       get_recent_activity(path, dir, lg, clock))]

\* ------------------------------------------------------------------- state
VARIABLES
  sessionFile,      \* .rat/session.json: [exists, data]
  sessionIdFile,    \* .claude-session-id: the id written, NoneId if no file
  claude_path,      \* the tracker's cached ClaudeReader.claude_path
  dir,              \* does the project's log directory exist
  logs,             \* the log files: name -> [exists, bytes, mtime]
  idCounter,        \* session ids handed out by generate_session_id
  ret,              \* what the tracker operation just performed returned
  obs,              \* the inputs that operation saw
  wasStopped,       \* the current session has been persisted as STOPPED
  opCount,          \* tracker operations that wrote the session file
  appended,         \* records appended to the log directory
  wbuf,             \* bytes of a record the agent has not flushed yet
  _file_positions,  \* ClaudeConversationHandler._file_positions
  _debounce_tasks,  \* ClaudeConversationHandler._debounce_tasks
  loopTime,         \* event-loop clock, milliseconds
  delivered,        \* the interactions passed to the callback, per file
  events,           \* file-system events delivered so far
  whist,            \* what the watch path has done so far, per file
  _observer,        \* ClaudeWatcher._observer: "None", "alive", or "stopped"
  callback_is_coroutine,  \* asyncio.iscoroutinefunction(self.callback)
  loop_tasks,       \* the tasks _schedule_process created in the event loop
  pending_at_stop,  \* the tasks that were sleeping when stop() returned
  inflight,         \* the load() a second process is in the middle of
  writing           \* the session a save() has opened the file for

sessionVars ==
  <<sessionFile, sessionIdFile, claude_path, now, idCounter, ret, obs,
    wasStopped, opCount>>

watchVars ==
  <<wbuf, _file_positions, _debounce_tasks, loopTime, delivered, events, whist>>

loopVars == <<_observer, callback_is_coroutine, loop_tasks, pending_at_stop>>

queryVars == <<qret>>

raceVars == <<inflight, writing>>

vars == <<sessionVars, dir, logs, appended, watchVars, loopVars, queryVars, raceVars>>

NoSession == NewSession(NoneT, "None")

\* nothing has been returned since the world last changed
NoRet == [kind |-> "init", session |-> NoSession]

\* lastActive: the last tracker operation was a load that returned ACTIVE;
\* prevActive: so was the operation before the one just performed
NoObs(lastActive) ==
  [op |-> "init", proc |-> "not_found", recent |-> FALSE, prevActive |-> FALSE,
   lastActive |-> lastActive]

NoLog == [exists |-> FALSE, bytes |-> <<>>, mtime |-> 0]

NoTask == [state |-> "none", deadline |-> 0]

\* per file: the time of the last event, the events and reads of the current
\* burst (events less than the quiet period apart), the last read (time, offset
\* before, file size, interactions delivered), whether the file changed since,
\* and whether it was ever truncated
NoHist ==
  [lastEvent |-> NoneT, burstEvents |-> 0, burstReads |-> 0, lastReadAt |-> NoneT,
   readFrom |-> 0, readSize |-> 0, readGot |-> <<>>, fresh |-> FALSE,
   shrunk |-> FALSE]

\* the file changed: what is recorded about the last read no longer describes it
Stale(h) ==
  [h EXCEPT !.readFrom = 0, !.readSize = 0, !.readGot = <<>>, !.fresh = FALSE]

\* no query has been performed
NoQuery ==
  [op |-> "init", file |-> "None", since |-> NoneT, limit |-> NoneLimit,
   value |-> <<>>, metrics |-> ZeroMetrics, raised |-> FALSE, calls |-> 1]

\* no load() is under way; .pc is the place the load has reached, .files the
\* list it got from glob, .session the session built so far, .kind what it
\* returned or raised, .created whether get_or_create went on to create
NoFlight ==
  [op |-> "none", pc |-> "idle", proc |-> "not_found", session |-> NoSession,
   files |-> <<>>, kind |-> "init", created |-> FALSE]

\* no save() is under way
NoWrite == [pending |-> FALSE, session |-> NoSession]

\* SessionTracker.__init__: no reader yet, nothing returned
InitTracker ==
  /\ sessionIdFile = NoneId
  /\ claude_path = "unset"
  /\ idCounter = 0
  /\ ret = NoRet
  /\ obs = NoObs(FALSE)
  /\ wasStopped = FALSE
  /\ opCount = 0
  /\ qret = NoQuery
  /\ inflight = NoFlight
  /\ writing = NoWrite

\* ClaudeConversationHandler.__init__: no offsets, no tasks
InitHandler ==
  /\ wbuf = [f \in Files |-> <<>>]
  /\ _file_positions = [f \in Files |-> 0]
  /\ _debounce_tasks = [f \in Files |-> NoTask]
  /\ loopTime = 0
  /\ delivered = [f \in Files |-> <<>>]
  /\ events = 0
  /\ whist = [f \in Files |-> NoHist]
  /\ loop_tasks = <<>>
  /\ pending_at_stop = {}

\* ClaudeWatcher.__init__: no observer
InitWatcher ==
  /\ _observer = "None"
  /\ callback_is_coroutine = FALSE

Init ==
  /\ InitTracker
  /\ sessionFile = [exists |-> FALSE, data |-> to_dict(NoSession)]
  /\ now = 0
  /\ dir \in BOOLEAN
  /\ logs = [f \in Files |-> NoLog]
  /\ appended = 0
  /\ InitHandler
  /\ InitWatcher

\* ------------------------------------------------- the session's environment
\* a step of the world (clock, logs) ends the moment "just after the operation":
\* the returned object and the observed inputs are dropped
Forget ==
  /\ ret' = NoRet
  /\ obs' = NoObs(obs.lastActive)

Tick ==
  /\ now < MaxTicks * ClockStep
  /\ now' = now + ClockStep
  /\ Forget
  /\ UNCHANGED <<sessionFile, sessionIdFile, claude_path, idCounter,
                 wasStopped, opCount, dir, logs, appended, watchVars, loopVars, queryVars, raceVars>>

AgentRecords(clock) ==
  {UserRecord(clock \div ClockStep), AssistantRecord(clock \div ClockStep, 1, 2)}

\* the agent appends one whole record to a conversation log
AgentAppend(f, rec) ==
  /\ appended < MaxLogRecords
  /\ appended' = appended + 1
  /\ dir' = TRUE
  /\ logs' = [logs EXCEPT ![f] =
                [exists |-> TRUE, bytes |-> logs[f].bytes \o rec, mtime |-> now]]
  /\ Forget
  /\ UNCHANGED <<sessionFile, sessionIdFile, claude_path, now, idCounter,
                 wasStopped, opCount, watchVars, loopVars, queryVars, raceVars>>

\* the log directory is removed
RemoveLogDir ==
  /\ dir
  /\ dir' = FALSE
  /\ logs' = [f \in Files |-> NoLog]
  /\ Forget
  /\ UNCHANGED <<sessionFile, sessionIdFile, claude_path, now, idCounter,
                 wasStopped, opCount, appended, watchVars, loopVars, queryVars, raceVars>>

\* a later command builds a new SessionTracker: nothing is held in memory
NewTracker ==
  /\ claude_path # "unset"
  /\ claude_path' = "unset"
  /\ Forget
  /\ UNCHANGED <<sessionFile, sessionIdFile, now, idCounter, wasStopped, opCount,
                 dir, logs, appended, watchVars, loopVars, queryVars, raceVars>>

\* the session file between open(path, "w") and the write: it exists and holds
\* no bytes, and json.loads fails on it
EmptyFile == [exists |-> TRUE, data |-> to_dict(NoSession)]

\* ------------------------------------------------- tracker.py: operations
\* the value load() returns in the current state
LoadResult(proc) ==
  IF ~sessionFile.exists \/ sessionFile = EmptyFile
    THEN [kind |-> "None", session |-> NoSession]
  ELSE IF _update_metrics_raises(from_dict(sessionFile.data),
                                 claude_reader(claude_path, dir), dir, logs)
    THEN [kind |-> "TypeError", session |-> NoSession]
  ELSE [kind |-> "session",
        session |-> LoadSession(sessionFile.data, claude_reader(claude_path, dir),
                                dir, logs, now, proc)]

\* the "session" argument of start/pause/stop: the object the caller has just
\* been returned, or None, and then the operation loads
Argument(arg, proc) ==
  IF arg = "held" THEN [kind |-> "session", session |-> ret.session]
  ELSE LoadResult(proc)

\* what the operation saw: for a load its inputs, whether it returned ACTIVE,
\* and whether the operation before it was a load that returned ACTIVE
Observe(op, proc, r) ==
  IF op # "load" THEN [NoObs(FALSE) EXCEPT !.op = op]
  ELSE [op |-> op, proc |-> proc,
        recent |-> get_recent_activity(claude_reader(claude_path, dir), dir, logs, now),
        prevActive |-> obs.lastActive,
        lastActive |-> r.kind = "session" /\ r.session.status = "ACTIVE"]

\* save(): the whole session file is rewritten, the id file when there is an id
Save(s) ==
  /\ sessionFile' = [exists |-> TRUE, data |-> to_dict(s)]
  /\ sessionIdFile' = IF s.id # NoneId THEN s.id ELSE sessionIdFile

\* the operation raises: ValueError when there is no session to work on, or
\* the TypeError that came out of load() or _update_metrics
Raise(op, proc, kind) ==
  /\ ret' = [kind |-> IF kind = "None" THEN "ValueError" ELSE kind,
             session |-> NoSession]
  /\ obs' = Observe(op, proc, NoRet)
  /\ claude_path' = IF kind = "None" THEN claude_path
                    ELSE claude_reader(claude_path, dir)
  /\ UNCHANGED <<sessionFile, sessionIdFile, now, idCounter, wasStopped, opCount>>

\* variant: load saves the session it has recomputed
Load_saving(proc) ==
  /\ LET r == LoadResult(proc)
     IN /\ ret' = r /\ obs' = Observe("load", proc, r)
        /\ IF r.kind = "session" THEN Save(r.session)
           ELSE UNCHANGED <<sessionFile, sessionIdFile>>
  /\ claude_path' = IF sessionFile.exists THEN claude_reader(claude_path, dir)
                    ELSE claude_path
  /\ UNCHANGED <<now, idCounter, wasStopped, opCount,
                 dir, logs, appended, watchVars, loopVars, queryVars, raceVars>>

Load(proc) ==
  /\ LET r == LoadResult(proc)
     IN ret' = r /\ obs' = Observe("load", proc, r)
  /\ claude_path' = IF sessionFile.exists THEN claude_reader(claude_path, dir)
                    ELSE claude_path
  /\ UNCHANGED <<sessionFile, sessionIdFile, now, idCounter, wasStopped, opCount,
                 dir, logs, appended, watchVars, loopVars, queryVars, raceVars>>

Create ==
  /\ opCount < MaxOps
  /\ opCount' = opCount + 1
  /\ Save(NewSession(now, "None"))
  /\ ret' = [kind |-> "session", session |-> NewSession(now, "None")]
  /\ obs' = Observe("create", "not_found", NoRet)
  /\ wasStopped' = FALSE
  /\ UNCHANGED <<claude_path, now, idCounter, dir, logs, appended, watchVars, loopVars, queryVars, raceVars>>

Start(arg, proc) ==
  /\ opCount < MaxOps
  /\ arg = "held" => ret.kind = "session"
  /\ LET a == Argument(arg, proc)
         s == a.session
         started == [s EXCEPT !.id = IF s.id = NoneId THEN idCounter + 1 ELSE s.id,
                              !.status = "ACTIVE",
                              !.started_at = IF s.started_at # NoneT
                                               THEN s.started_at ELSE now]
     IN IF a.kind # "session" THEN Raise("start", proc, a.kind)
        ELSE /\ Save(started)
             /\ ret' = [kind |-> "session", session |-> started]
             /\ obs' = Observe("start", proc, NoRet)
             /\ idCounter' = IF s.id = NoneId THEN idCounter + 1 ELSE idCounter
             /\ claude_path' = IF arg = "held" THEN claude_path
                               ELSE claude_reader(claude_path, dir)
             /\ opCount' = opCount + 1
             /\ UNCHANGED <<now, wasStopped>>
  /\ UNCHANGED <<dir, logs, appended, watchVars, loopVars, queryVars, raceVars>>

Pause(arg, proc) ==
  /\ opCount < MaxOps
  /\ arg = "held" => ret.kind = "session"
  /\ LET a == Argument(arg, proc)
         path == claude_reader(claude_path, dir)
         s == _update_metrics(a.session, path, dir, logs)
         paused == [s EXCEPT !.status = "PAUSED"]
     IN IF a.kind # "session" THEN Raise("pause", proc, a.kind)
        ELSE IF _update_metrics_raises(a.session, path, dir, logs)
          THEN Raise("pause", proc, "TypeError")
        ELSE /\ Save(paused)
             /\ ret' = [kind |-> "session", session |-> paused]
             /\ obs' = Observe("pause", proc, NoRet)
             /\ claude_path' = path
             /\ opCount' = opCount + 1
             /\ UNCHANGED <<now, idCounter, wasStopped>>
  /\ UNCHANGED <<dir, logs, appended, watchVars, loopVars, queryVars, raceVars>>

Stop(arg, proc) ==
  /\ opCount < MaxOps
  /\ arg = "held" => ret.kind = "session"
  /\ LET a == Argument(arg, proc)
         path == claude_reader(claude_path, dir)
         s == _update_metrics(a.session, path, dir, logs)
         stopped == [s EXCEPT !.status = "STOPPED", !.stopped_at = now]
     IN IF a.kind # "session" THEN Raise("stop", proc, a.kind)
        ELSE IF _update_metrics_raises(a.session, path, dir, logs)
          THEN Raise("stop", proc, "TypeError")
        ELSE /\ Save(stopped)
             /\ ret' = [kind |-> "session", session |-> stopped]
             /\ obs' = Observe("stop", proc, NoRet)
             /\ claude_path' = path
             /\ opCount' = opCount + 1
             /\ wasStopped' = TRUE
             /\ UNCHANGED <<now, idCounter>>
  /\ UNCHANGED <<dir, logs, appended, watchVars, loopVars, queryVars, raceVars>>

PlanFiles == {"plan.md"}

\* link_plan: load, set plan_file, save; returns nothing
LinkPlan(plan, proc) ==
  /\ opCount < MaxOps
  /\ LET a == LoadResult(proc)
     IN /\ IF a.kind = "session"
             THEN Save([a.session EXCEPT !.plan_file = plan])
             ELSE UNCHANGED <<sessionFile, sessionIdFile>>
        /\ claude_path' = IF a.kind # "None" THEN claude_reader(claude_path, dir)
                          ELSE claude_path
        /\ ret' = [kind |-> IF a.kind = "TypeError" THEN a.kind ELSE "None",
                   session |-> NoSession]
  /\ obs' = Observe("link_plan", proc, NoRet)
  /\ opCount' = opCount + 1
  /\ UNCHANGED <<now, idCounter, wasStopped, dir, logs, appended, watchVars, loopVars, queryVars, raceVars>>

NextSession ==
  \/ Tick
  \/ \E f \in SessionLogs : \E rec \in AgentRecords(now) : AgentAppend(f, rec)
  \/ RemoveLogDir
  \/ NewTracker
  \/ \E proc \in ProcResults : Load(proc)
  \/ Create
  \/ \E proc \in ProcResults : Start("None", proc)
  \/ Start("held", "not_found")
  \/ \E proc \in ProcResults : Pause("None", proc)
  \/ Pause("held", "not_found")
  \/ \E proc \in ProcResults : Stop("None", proc)
  \/ Stop("held", "not_found")
  \/ \E plan \in PlanFiles : \E proc \in ProcResults : LinkPlan(plan, proc)

Spec == Init /\ [][NextSession]_vars

\* ------------------------------------------------- watcher.py: the watch path
WatchRecords == {UserRecord(0), AssistantRecord(0, 1, 2), OtherRecord}

\* where a write may be cut: inside the record, or
\* not at all
SplitPoints(rec) == {2, Len(rec)}

\* the agent starts writing a record: the first k bytes reach the file
AgentWrite(f, rec, k) ==
  /\ appended < MaxWatchRecords
  /\ wbuf[f] = <<>>
  /\ appended' = appended + 1
  /\ logs' = [logs EXCEPT ![f] =
                [exists |-> TRUE, bytes |-> logs[f].bytes \o SubSeq(rec, 1, k),
                 mtime |-> now]]
  /\ wbuf' = [wbuf EXCEPT ![f] = SubSeq(rec, k + 1, Len(rec))]
  /\ whist' = [whist EXCEPT ![f] = Stale(@)]
  /\ UNCHANGED <<sessionVars, loopVars, queryVars, raceVars, dir, _file_positions, _debounce_tasks, loopTime,
                 delivered, events>>

\* the rest of the record reaches the file
AgentFlush(f) ==
  /\ wbuf[f] # <<>>
  /\ logs' = [logs EXCEPT ![f].bytes = logs[f].bytes \o wbuf[f]]
  /\ wbuf' = [wbuf EXCEPT ![f] = <<>>]
  /\ whist' = [whist EXCEPT ![f] = Stale(@)]
  /\ UNCHANGED <<sessionVars, loopVars, queryVars, raceVars, dir, appended, _file_positions, _debounce_tasks,
                 loopTime, delivered, events>>

\* log rotation: the file is replaced by an empty one
Truncate(f) ==
  /\ logs[f].exists /\ logs[f].bytes # <<>> /\ ~whist[f].shrunk
  /\ logs' = [logs EXCEPT ![f].bytes = <<>>]
  /\ wbuf' = [wbuf EXCEPT ![f] = <<>>]
  /\ whist' = [whist EXCEPT ![f] = [Stale(@) EXCEPT !.shrunk = TRUE]]
  /\ UNCHANGED <<sessionVars, loopVars, queryVars, raceVars, dir, appended, _file_positions, _debounce_tasks,
                 loopTime, delivered, events>>

LoopTick ==
  /\ loopTime < MaxLoopTicks * LoopStep
  /\ loopTime' = loopTime + LoopStep
  /\ UNCHANGED <<sessionVars, loopVars, queryVars, raceVars, dir, logs, appended, wbuf, _file_positions,
                 _debounce_tasks, delivered, events, whist>>

\* the events the observer delivers: modified files of the directory, and
\* a modified subdirectory
Events ==
  {[src_path |-> p, is_directory |-> FALSE] : p \in Files \cup {"agent-1.jsonl", "notes.txt"}}
    \cup {[src_path |-> "sub.jsonl", is_directory |-> TRUE]}

HasJsonlSuffix(p) == p \in Files \cup {"agent-1.jsonl", "sub.jsonl"}

\* variant: a pending task is kept and no new one is created
_schedule_process_keep(tasks, key, t) ==
  IF tasks[key].state = "sleeping" THEN tasks
  ELSE [tasks EXCEPT ![key] = [state |-> "sleeping", deadline |-> t + DebounceMs]]

\* variant: every pending task is put off, whatever its key
_schedule_process_all(tasks, key, t) ==
  [f \in Files |->
     IF f = key \/ tasks[f].state = "sleeping"
       THEN [state |-> "sleeping", deadline |-> t + DebounceMs] ELSE tasks[f]]

\* _schedule_process: cancel the pending task of the key, create a new one
\* that sleeps for the quiet period and then processes the file
_schedule_process(tasks, key, t) ==
  [tasks EXCEPT ![key] = [state |-> "sleeping", deadline |-> t + DebounceMs]]

on_modified(ev) ==
  /\ events < MaxEvents
  /\ IF ev.is_directory \/ ~HasJsonlSuffix(ev.src_path) \/ StartsWithAgent(ev.src_path)
       THEN UNCHANGED <<_debounce_tasks, whist, events>>
       ELSE LET f == ev.src_path
                h == whist[f]
                inBurst == h.lastEvent # NoneT /\ loopTime - h.lastEvent < DebounceMs
            IN /\ events' = events + 1
               /\ _debounce_tasks' = _schedule_process(_debounce_tasks, f, loopTime)
               /\ whist' = [whist EXCEPT
                    ![f].lastEvent = loopTime,
                    ![f].burstEvents = IF inBurst THEN h.burstEvents + 1 ELSE 1,
                    ![f].burstReads = IF inBurst THEN h.burstReads ELSE 0,
                    ![f].lastReadAt = IF inBurst THEN h.lastReadAt ELSE NoneT]
  /\ UNCHANGED <<sessionVars, loopVars, queryVars, raceVars, dir, logs, appended, wbuf, _file_positions,
                 loopTime, delivered>>

\* variant: the read starts at the beginning of the file
IncrementalRead_no_seek(bytes, last_pos) ==
  [new_content |-> bytes,
   new_pos |-> IF last_pos > Len(bytes) THEN last_pos ELSE Len(bytes)]

\* seek(last_pos), read(), tell(): a seek past the end reads nothing and stays
IncrementalRead(bytes, last_pos) ==
  [new_content |-> SubSeq(bytes, last_pos + 1, Len(bytes)),
   new_pos |-> IF last_pos > Len(bytes) THEN last_pos ELSE Len(bytes)]

\* the interactions _process_file passes to the callback for what it read
NewInteractions(new_content) ==
  IF new_content = <<>> THEN <<>> ELSE ExtractLines(split(strip(new_content)))

\* extract_interaction raised inside the loop: "except Exception" logs it and
\* the assignment to _file_positions is not reached
ProcessRaises(new_content) ==
  new_content # <<>> /\ ExtractRaises(split(strip(new_content)))

\* the debounce task of f wakes after its sleep and runs _process_file(f)
TimerFire(f) ==
  /\ _debounce_tasks[f].state = "sleeping"
  /\ loopTime >= _debounce_tasks[f].deadline
  /\ _debounce_tasks' = [_debounce_tasks EXCEPT ![f].state = "done"]
  /\ LET last_pos == _file_positions[f]
         r == IncrementalRead(logs[f].bytes, last_pos)
         got == NewInteractions(r.new_content)
     IN IF ~logs[f].exists
          THEN /\ UNCHANGED <<_file_positions, delivered>>
               /\ whist' = [whist EXCEPT ![f].burstReads = @ + 1,
                                         ![f].lastReadAt = loopTime]
          ELSE /\ _file_positions' =
                    IF ProcessRaises(r.new_content) THEN _file_positions
                    ELSE [_file_positions EXCEPT ![f] = r.new_pos]
               /\ delivered' = [delivered EXCEPT ![f] = @ \o got]
               /\ whist' = [whist EXCEPT
                    ![f].burstReads = @ + 1, ![f].lastReadAt = loopTime,
                    ![f].readFrom = last_pos, ![f].readSize = Len(logs[f].bytes),
                    ![f].readGot = got, ![f].fresh = TRUE]
  /\ UNCHANGED <<sessionVars, loopVars, queryVars, raceVars, dir, logs, appended, wbuf, loopTime, events>>

InitWatch == Init /\ dir

NextWatch ==
  \/ \E f \in Files : \E rec \in WatchRecords : \E k \in SplitPoints(rec) : AgentWrite(f, rec, k)
  \/ \E f \in Files : AgentFlush(f)
  \/ \E f \in Files : Truncate(f)
  \/ LoopTick
  \/ \E ev \in Events : on_modified(ev)
  \/ \E f \in Files : TimerFire(f)

SpecWatch == InitWatch /\ [][NextWatch]_vars

\* The handler on files that hold whole lines at every read: the agent writes
\* each record at once, and no file is truncated.
InitLines ==
  /\ InitTracker
  /\ sessionFile = [exists |-> FALSE, data |-> to_dict(NoSession)]
  /\ now = 0
  /\ dir = TRUE
  /\ \E c1 \in {<<>>} \cup WatchRecords :
       logs = [f \in Files |->
                 IF f = "c1.jsonl" THEN [exists |-> TRUE, bytes |-> c1, mtime |-> 0]
                 ELSE NoLog]
  /\ appended = 0
  /\ InitHandler
  /\ InitWatcher

NextLines ==
  \/ \E f \in Files : \E rec \in WatchRecords : AgentWrite(f, rec, Len(rec))
  \/ LoopTick
  \/ \E ev \in Events : on_modified(ev)
  \/ \E f \in Files : TimerFire(f)

SpecLines == InitLines /\ [][NextLines]_vars

\* --------------------------------- watcher.py: the tasks of the event loop
\* The handler again, with every task _schedule_process creates kept as an
\* object of the event loop, and _process_file split at the points where it
\* awaits an asynchronous callback.
MaxTasks == 3           \* tasks created in the event loop

\* delayed_process as created: asleep until the quiet period has passed
NewTask(key, t) ==
  [key |-> key, state |-> "sleeping", deadline |-> t + DebounceMs,
   started |-> FALSE, outcome |-> "none", new_pos |-> 0, rest |-> <<>>,
   raises |-> FALSE]

\* self._debounce_tasks[key]: the task created last for the key, 0 if none
TaskOf(tasks, key) ==
  LET ks == {k \in 1..Len(tasks) : tasks[k].key = key}
  IN IF ks = {} THEN 0 ELSE CHOOSE k \in ks : \A j \in ks : j <= k

\* variant: Task.cancel() has no effect
cancel_noop(tasks, k) == tasks

\* Task.cancel(): a sleeping task never runs its step; a task suspended in the
\* callback gets CancelledError there, which "except Exception" does not
\* catch, so its step ends at that point; a finished task is not affected
cancel(tasks, k) ==
  IF k = 0 THEN tasks
  ELSE IF tasks[k].state \notin {"sleeping", "awaiting"} THEN tasks
  ELSE [tasks EXCEPT ![k].state = "cancelled"]

\* _schedule_process on the tasks of the loop
_schedule_process_in_loop(tasks, key, t) ==
  Append(cancel(tasks, TaskOf(tasks, key)), NewTask(key, t))

\* ClaudeWatcher.start: a handler and an observer for the log directory
WatcherStart ==
  /\ _observer = "None"
  /\ get_claude_project_path(dir) # "None"
  /\ _observer' = "alive"
  /\ UNCHANGED <<sessionVars, queryVars, raceVars, dir, logs, appended, watchVars,
                 callback_is_coroutine, loop_tasks, pending_at_stop>>

\* ClaudeWatcher.stop: the observer is stopped and joined; the handler's
\* tasks are not touched
WatcherStop ==
  /\ _observer = "alive"
  /\ _observer' = "stopped"
  /\ pending_at_stop' = {k \in 1..Len(loop_tasks) : loop_tasks[k].state = "sleeping"}
  /\ UNCHANGED <<sessionVars, queryVars, raceVars, dir, logs, appended, watchVars,
                 callback_is_coroutine, loop_tasks>>

\* on_modified, called by the observer while it is alive
on_modified_in_loop(ev) ==
  /\ _observer = "alive"
  /\ Len(loop_tasks) < MaxTasks
  /\ IF ev.is_directory \/ ~HasJsonlSuffix(ev.src_path) \/ StartsWithAgent(ev.src_path)
       THEN UNCHANGED loop_tasks
       ELSE loop_tasks' = _schedule_process_in_loop(loop_tasks, ev.src_path, loopTime)
  /\ UNCHANGED <<sessionVars, queryVars, raceVars, dir, logs, appended, watchVars,
                 _observer, callback_is_coroutine, pending_at_stop>>

\* variant: the offset is stored whether the step failed or not
StorePosition_always(positions, key, new_pos, failed) ==
  [positions EXCEPT ![key] = new_pos]

\* variant: a failed step clears the handler's offsets
StorePosition_reset(positions, key, new_pos, failed) ==
  IF failed THEN [f \in Files |-> 0] ELSE [positions EXCEPT ![key] = new_pos]

\* "self._file_positions[key] = new_pos" is the last statement of the try
\* block: it is not reached when the step failed
StorePosition(positions, key, new_pos, failed) ==
  IF failed THEN positions ELSE [positions EXCEPT ![key] = new_pos]

\* a task wakes from its sleep and runs _process_file up to the first await:
\* the whole step when the callback is an ordinary function or nothing was
\* read, else up to the first call of the callback
TaskWake(k) ==
  /\ loop_tasks[k].state = "sleeping"
  /\ loopTime >= loop_tasks[k].deadline
  /\ LET f == loop_tasks[k].key
         r == IncrementalRead(logs[f].bytes, _file_positions[f])
         got == NewInteractions(r.new_content)
         raises == ProcessRaises(r.new_content)
     IN IF ~logs[f].exists
          THEN /\ loop_tasks' = [loop_tasks EXCEPT ![k].state = "done",
                                                   ![k].outcome = "error"]
               /\ UNCHANGED <<_file_positions, delivered>>
        ELSE IF ~callback_is_coroutine \/ got = <<>>
          THEN /\ loop_tasks' = [loop_tasks EXCEPT
                    ![k].state = "done", ![k].started = TRUE,
                    ![k].outcome = IF raises THEN "error" ELSE "ok"]
               /\ delivered' = [delivered EXCEPT ![f] = @ \o got]
               /\ _file_positions' = StorePosition(_file_positions, f, r.new_pos, raises)
        ELSE /\ loop_tasks' = [loop_tasks EXCEPT
                    ![k].state = "awaiting", ![k].started = TRUE,
                    ![k].new_pos = r.new_pos, ![k].rest = Tail(got),
                    ![k].raises = raises]
             /\ delivered' = [delivered EXCEPT ![f] = Append(@, Head(got))]
             /\ UNCHANGED _file_positions
  /\ UNCHANGED <<sessionVars, queryVars, raceVars, dir, logs, appended, wbuf, _debounce_tasks,
                 loopTime, events, whist, _observer, callback_is_coroutine,
                 pending_at_stop>>

\* the callback the task awaits returns: the next interaction is passed to
\* the callback, or the step ends and stores the new offset
TaskResume(k) ==
  /\ loop_tasks[k].state = "awaiting"
  /\ LET t == loop_tasks[k]
         f == t.key
     IN IF t.rest # <<>>
          THEN /\ loop_tasks' = [loop_tasks EXCEPT ![k].rest = Tail(t.rest)]
               /\ delivered' = [delivered EXCEPT ![f] = Append(@, Head(t.rest))]
               /\ UNCHANGED _file_positions
          ELSE /\ loop_tasks' = [loop_tasks EXCEPT
                    ![k].state = "done",
                    ![k].outcome = IF t.raises THEN "error" ELSE "ok"]
               /\ _file_positions' = StorePosition(_file_positions, f, t.new_pos, t.raises)
               /\ UNCHANGED delivered
  /\ UNCHANGED <<sessionVars, queryVars, raceVars, dir, logs, appended, wbuf, _debounce_tasks,
                 loopTime, events, whist, _observer, callback_is_coroutine,
                 pending_at_stop>>

\* what a conversation file that appears in the directory holds
NewLogs == {UserRecord(0), ListLine \o UserRecord(0)}

\* the agent starts a conversation: its log file appears
LogAppears(f, bytes) ==
  /\ ~logs[f].exists
  /\ logs' = [logs EXCEPT ![f] = [exists |-> TRUE, bytes |-> bytes, mtime |-> now]]
  /\ UNCHANGED <<sessionVars, queryVars, raceVars, dir, appended, watchVars, loopVars>>

\* a watcher built for a project whose log directory holds one conversation
\* of two records; the callback is an ordinary or an asynchronous function
InitLoop ==
  /\ InitTracker
  /\ sessionFile = [exists |-> FALSE, data |-> to_dict(NoSession)]
  /\ now = 0
  /\ dir = TRUE
  /\ logs = [f \in Files |->
               IF f = "c1.jsonl"
                 THEN [exists |-> TRUE, mtime |-> 0,
                       bytes |-> UserRecord(0) \o AssistantRecord(0, 1, 2)]
                 ELSE NoLog]
  /\ appended = 0
  /\ InitHandler
  /\ _observer = "None"
  /\ callback_is_coroutine \in BOOLEAN

NextLoop ==
  \/ WatcherStart
  \/ WatcherStop
  \/ \E ev \in Events : on_modified_in_loop(ev)
  \/ LoopTick
  \/ \E k \in 1..Len(loop_tasks) : TaskWake(k)
  \/ \E k \in 1..Len(loop_tasks) : TaskResume(k)
  \/ \E f \in Files : \E bytes \in NewLogs : LogAppears(f, bytes)

SpecLoop == InitLoop /\ [][NextLoop]_vars

\* The handler over an unbounded run: modification events and firings recur
\* for ever. The clock is left out: a sleeping task fires at some time after
\* its quiet period, and an event before that puts it off.
MaxStallLines == 3      \* lines the agent appends
MaxRedelivered == 3     \* interactions delivered for a file before events end

\* what the agent appends: a line on which extraction raises, or a user record
StallRecords == {ListLine, BadShapeRecord, UserRecord(0)}

\* the agent appends a whole line to a conversation
AgentAppendsLine(f, rec) ==
  /\ logs[f].exists
  /\ appended < MaxStallLines
  /\ appended' = appended + 1
  /\ logs' = [logs EXCEPT ![f].bytes = @ \o rec, ![f].mtime = now]
  /\ whist' = [whist EXCEPT ![f] = Stale(@)]
  /\ UNCHANGED <<sessionVars, loopVars, queryVars, raceVars, dir, wbuf, _file_positions,
                 _debounce_tasks, loopTime, delivered, events>>

\* on_modified, events not counted
on_modified_repeated(ev) ==
  /\ IF ev.is_directory \/ ~HasJsonlSuffix(ev.src_path) \/ StartsWithAgent(ev.src_path)
       THEN UNCHANGED _debounce_tasks
       ELSE /\ Len(delivered[ev.src_path]) < MaxRedelivered
            /\ _debounce_tasks' = _schedule_process(_debounce_tasks, ev.src_path, loopTime)
  /\ UNCHANGED <<sessionVars, loopVars, queryVars, raceVars, dir, logs, appended, wbuf,
                 _file_positions, loopTime, delivered, events, whist>>

\* delayed_process: the sleep of the task of f ends
SleepEnds(f) ==
  /\ _debounce_tasks[f].state = "sleeping"
  /\ _debounce_tasks' = [_debounce_tasks EXCEPT ![f].state = "done"]

\* delayed_process after its sleep: _process_file(f)
_process_file(f) ==
  /\ SleepEnds(f)
  /\ LET last_pos == _file_positions[f]
         r == IncrementalRead(logs[f].bytes, last_pos)
         got == NewInteractions(r.new_content)
         failed == ~logs[f].exists \/ ProcessRaises(r.new_content)
     IN /\ _file_positions' = StorePosition(_file_positions, f, r.new_pos, failed)
        /\ IF ~logs[f].exists
             THEN UNCHANGED <<delivered, whist>>
             ELSE /\ delivered' = [delivered EXCEPT ![f] = @ \o got]
                  /\ whist' = [whist EXCEPT
                       ![f].readFrom = last_pos, ![f].readSize = Len(logs[f].bytes),
                       ![f].readGot = got, ![f].fresh = TRUE]
  /\ UNCHANGED <<sessionVars, loopVars, queryVars, raceVars, dir, logs, appended, wbuf,
                 loopTime, events>>

\* a handler watching a directory with one empty conversation
InitStall ==
  /\ InitTracker
  /\ sessionFile = [exists |-> FALSE, data |-> to_dict(NoSession)]
  /\ now = 0
  /\ dir = TRUE
  /\ logs = [f \in Files |->
               IF f = "c1.jsonl" THEN [exists |-> TRUE, bytes |-> <<>>, mtime |-> 0]
               ELSE NoLog]
  /\ appended = 0
  /\ InitHandler
  /\ InitWatcher

NextStall ==
  \/ \E f \in Files : \E rec \in StallRecords : AgentAppendsLine(f, rec)
  \/ \E ev \in Events : on_modified_repeated(ev)
  \/ \E f \in Files : _process_file(f)

\* the event loop runs a task whose sleep has ended; the step in which a
\* sleep ends is the _process_file step of that task
SpecStall ==
  InitStall /\ [][NextStall]_vars /\ \A f \in Files : WF_<<_debounce_tasks>>(SleepEnds(f))

\* ------------------------------------------------- reader.py: the queries
MaxLines == 3           \* lines of the conversation file the queries read
MaxCalls == 2           \* times in a row the same query is made

\* the lines a conversation file is made of
QueryLines ==
  {UserRecord(0), AssistantRecord(1, 1, 2), OtherRecord, Malformed, ListLine,
   BadShapeRecord, SystemRoleRecord, BadStampRecord}

RECURSIVE Concat(_)
Concat(ss) == IF ss = <<>> THEN <<>> ELSE Head(ss) \o Concat(Tail(ss))

QueryFiles ==
  {Concat(ls) : ls \in UNION {[1..n -> QueryLines] : n \in 0..MaxLines}}

\* a second, older conversation: absent, one user record, or one assistant
\* record
OtherFiles == {<<>>, UserRecord(2), AssistantRecord(2, 3, 4)}

\* a session created at time 0 and a log directory with one or two
\* conversation files, one clock tick later
InitQuery ==
  /\ InitTracker
  /\ sessionFile = [exists |-> TRUE, data |-> to_dict(NewSession(0, "None"))]
  /\ now = ClockStep
  /\ dir = TRUE
  /\ \E c1 \in QueryFiles : \E c2 \in OtherFiles :
       logs = [f \in Files |->
                 IF f = "c1.jsonl" THEN [exists |-> TRUE, bytes |-> c1, mtime |-> ClockStep]
                 ELSE [exists |-> c2 # <<>>, bytes |-> c2, mtime |-> 0]]
  /\ appended = 0
  /\ InitHandler
  /\ InitWatcher

\* a query is made on a reader that has returned nothing yet, or is the
\* query just made, made again
Fresh == qret.op = "init"

Again(op, since) == qret.op = op /\ qret.since = since /\ qret.calls < MaxCalls

\* how many times in a row the query has now been made
Calls(op, since) ==
  IF qret.op = op /\ qret.since = since THEN qret.calls + 1 ELSE 1

QueryUnchanged ==
  UNCHANGED <<sessionFile, sessionIdFile, claude_path, now, idCounter, ret, obs,
              wasStopped, opCount, dir, logs, appended, watchVars, loopVars,
              raceVars>>

\* parse_conversation_file(file_path)
QueryParse(f) ==
  /\ Fresh
  /\ logs[f].exists
  /\ qret' = [NoQuery EXCEPT !.op = "parse_conversation_file", !.file = f,
                             !.value = parse_conversation_file(logs[f].bytes)]
  /\ QueryUnchanged

\* ClaudeReader(project_root).calculate_metrics(since)
QueryMetrics(since) ==
  /\ Fresh \/ Again("calculate_metrics", since)
  /\ LET r == calculate_metrics(get_claude_project_path(dir), dir, logs, since)
     IN qret' = [NoQuery EXCEPT !.op = "calculate_metrics", !.since = since,
                                !.metrics = IF r.raised THEN ZeroMetrics ELSE r.metrics,
                                !.raised = r.raised,
                                !.calls = Calls("calculate_metrics", since)]
  /\ QueryUnchanged

\* SessionTracker(worktree).load(): the metrics of the session returned
QueryLoad(proc) ==
  /\ Fresh \/ Again("load", from_dict(sessionFile.data).created_at)
  /\ LET r == LoadResult(proc)
     IN qret' = [NoQuery EXCEPT !.op = "load",
                                !.since = from_dict(sessionFile.data).created_at,
                                !.metrics = r.session.metrics,
                                !.raised = r.kind = "TypeError",
                                !.calls = Calls("load", from_dict(sessionFile.data).created_at)]
  /\ QueryUnchanged

\* get_latest_interaction(file_path): the list holds the interaction returned,
\* and is empty for None
QueryLatest(f) ==
  /\ Fresh
  /\ logs[f].exists
  /\ LET latest == get_latest_interaction(logs[f].bytes)
     IN qret' = [NoQuery EXCEPT !.op = "get_latest_interaction", !.file = f,
                                !.value = IF latest = NoInteraction THEN <<>>
                                          ELSE <<latest>>]
  /\ QueryUnchanged

\* ClaudeReader(project_root).read_all_interactions(since, limit)
QueryReadAll(since, limit) ==
  /\ Fresh
  /\ LET r == read_all_interactions(get_claude_project_path(dir), dir, logs, since, limit)
     IN qret' = [NoQuery EXCEPT !.op = "read_all_interactions", !.since = since,
                                !.limit = limit, !.value = r.value,
                                !.raised = r.raised]
  /\ QueryUnchanged

Sinces == {NoneT, 0}

Limits == {NoneLimit, 0, 1, 2}

NextQuery ==
  \/ \E f \in Files : QueryParse(f)
  \/ \E f \in Files : QueryLatest(f)
  \/ \E since \in Sinces : QueryMetrics(since)
  \/ \E proc \in ProcResults : QueryLoad(proc)
  \/ \E since \in Sinces : \E limit \in Limits : QueryReadAll(since, limit)

SpecQuery == InitQuery /\ [][NextQuery]_vars

\* ------------------------------ tracker.py, reader.py: processes side by side
\* One process is in the middle of load() or get_or_create(), one statement
\* at a time, while another saves the session and the log files change.

\* claude_path.glob("*.jsonl"): the names present at the moment of the call
Glob(lg) == SelectSeq(DirNames, LAMBDA f : ~StartsWithAgent(f) /\ ReadLog(lg, f).exists)

\* the loop of get_recent_activity over the files listed: stat() raises on a
\* file that is gone, an old file is skipped, the first recent interaction
\* ends the loop
RECURSIVE RecentScan(_, _, _)
RecentScan(fs, lg, cutoff) ==
  IF fs = <<>> THEN "False"
  ELSE IF ~lg[Head(fs)].exists THEN "FileNotFoundError"
  ELSE IF lg[Head(fs)].mtime < cutoff THEN RecentScan(Tail(fs), lg, cutoff)
  ELSE LET latest == get_latest_interaction(lg[Head(fs)].bytes)
       IN IF latest # NoInteraction /\ latest.timestamp > cutoff THEN "True"
          ELSE RecentScan(Tail(fs), lg, cutoff)

\* a log file is removed (an older conversation, not the one being written)
FileVanishes(f) ==
  /\ logs[f].exists
  /\ logs' = [logs EXCEPT ![f] = NoLog]
  /\ Forget
  /\ UNCHANGED <<sessionFile, sessionIdFile, claude_path, now, idCounter,
                 wasStopped, opCount, dir, appended, watchVars, loopVars, queryVars,
                 raceVars>>

\* the load has raised: nothing is returned
Raised(fl, kind) ==
  [fl EXCEPT !.pc = "done", !.kind = kind, !.session = NoSession, !.files = <<>>]

\* _update_status up to the listing made by get_recent_activity: a stopped
\* session and a process that is not running need no look at the logs
BeginStatus(fl, s, path) ==
  IF s.status = "STOPPED" \/ ~is_claude_running(fl.proc)
    THEN [fl EXCEPT !.pc = "done", !.kind = "session", !.files = <<>>,
                    !.session = [s EXCEPT !.status =
                                   _update_status(s.status, is_claude_running(fl.proc),
                                                  FALSE)]]
  ELSE [fl EXCEPT !.pc = "r_listed", !.session = s,
                  !.files = IF path = "None" \/ ~dir THEN <<>> ELSE Glob(logs)]

\* the load goes on to fl; when it is over the caller has its result
Proceed(fl) ==
  /\ inflight' = fl
  /\ IF fl.pc = "done"
       THEN /\ ret' = [kind |-> fl.kind, session |-> fl.session]
            /\ obs' = [NoObs(FALSE) EXCEPT !.op = fl.op, !.proc = fl.proc]
       ELSE UNCHANGED <<ret, obs>>

\* load() reads the session file and, in _update_metrics, lists the logs
LoadBegin(op, proc) ==
  /\ inflight.pc = "idle"
  /\ LET path == claude_reader(claude_path, dir)
         fl == [NoFlight EXCEPT !.op = op, !.proc = proc]
         s == from_dict(sessionFile.data)
     IN Proceed(IF ~sessionFile.exists \/ sessionFile = EmptyFile
                  THEN [fl EXCEPT !.pc = IF op = "get_or_create" THEN "create" ELSE "done",
                                  !.kind = "None"]
                ELSE IF ~has_claude_data(path, dir) THEN BeginStatus(fl, s, path)
                ELSE [fl EXCEPT !.pc = "m_listed", !.session = s, !.files = Glob(logs)])
  /\ UNCHANGED <<sessionFile, sessionIdFile, claude_path, now, idCounter, wasStopped,
                 opCount, dir, logs, appended, watchVars, loopVars, queryVars, writing>>

\* files.sort(key=lambda p: p.stat().st_mtime): stat() raises on a file that
\* is gone since the listing
LoadSort ==
  /\ inflight.pc \in {"m_listed", "r_listed"}
  /\ Proceed(IF \E k \in 1..Len(inflight.files) : ~logs[inflight.files[k]].exists
               THEN Raised(inflight, "FileNotFoundError")
             ELSE [inflight EXCEPT !.pc = IF @ = "m_listed" THEN "m_sorted" ELSE "r_sorted",
                                   !.files = SortByMtime(@, logs)])
  /\ UNCHANGED <<sessionFile, sessionIdFile, claude_path, now, idCounter, wasStopped,
                 opCount, dir, logs, appended, watchVars, loopVars, queryVars, writing>>

\* the loop of calculate_metrics over the files listed (a file that is gone
\* parses to nothing), then _update_status
LoadParse ==
  /\ inflight.pc = "m_sorted"
  /\ LET s == inflight.session
         m == FoldFiles([metrics |-> ZeroMetrics, tzinfo |-> "unset", raised |-> FALSE],
                        inflight.files, logs, s.created_at)
     IN Proceed(IF m.raised THEN Raised(inflight, "TypeError")
                ELSE BeginStatus(inflight, [s EXCEPT !.metrics = m.metrics],
                                 claude_reader(claude_path, dir)))
  /\ UNCHANGED <<sessionFile, sessionIdFile, claude_path, now, idCounter, wasStopped,
                 opCount, dir, logs, appended, watchVars, loopVars, queryVars, writing>>

\* the loop of get_recent_activity, then the status
LoadCheck ==
  /\ inflight.pc = "r_sorted"
  /\ LET s == inflight.session
         recent == RecentScan(inflight.files, logs, now - RecentMinutes)
     IN Proceed(IF recent = "FileNotFoundError" THEN Raised(inflight, recent)
                ELSE [inflight EXCEPT !.pc = "done", !.kind = "session", !.files = <<>>,
                                      !.session = [s EXCEPT !.status =
                                        _update_status(s.status, TRUE, recent = "True")]])
  /\ UNCHANGED <<sessionFile, sessionIdFile, claude_path, now, idCounter, wasStopped,
                 opCount, dir, logs, appended, watchVars, loopVars, queryVars, writing>>

\* get_or_create: load() returned None, so create()
LoadCreate ==
  /\ inflight.pc = "create"
  /\ Save(NewSession(now, "None"))
  /\ Proceed([inflight EXCEPT !.pc = "done", !.kind = "session", !.created = TRUE,
                              !.session = NewSession(now, "None")])
  /\ opCount' = opCount + 1
  /\ UNCHANGED <<claude_path, now, idCounter, wasStopped, dir, logs, appended,
                 watchVars, loopVars, queryVars, writing>>

WriterOps == {"start"}

\* another process runs start() or pause() as far as save() opening the
\* session file for writing, which empties it
SaveOpen(op) ==
  /\ opCount < MaxOps
  /\ ~writing.pending
  /\ LET a == LoadResult("not_found")
         s == a.session
     IN /\ a.kind = "session"
        /\ writing' =
             [pending |-> TRUE,
              session |-> IF op = "pause" THEN [s EXCEPT !.status = "PAUSED"]
                          ELSE [s EXCEPT !.id = IF s.id = NoneId THEN idCounter + 1
                                                ELSE s.id,
                                         !.status = "ACTIVE",
                                         !.started_at = IF s.started_at # NoneT
                                                          THEN s.started_at ELSE now]]
        /\ idCounter' = IF op = "start" /\ s.id = NoneId THEN idCounter + 1
                         ELSE idCounter
  /\ sessionFile' = EmptyFile
  /\ opCount' = opCount + 1
  /\ UNCHANGED <<sessionIdFile, claude_path, now, ret, obs, wasStopped, dir, logs,
                 appended, watchVars, loopVars, queryVars, inflight>>

\* write_text writes the text and closes the file
SaveWrite ==
  /\ writing.pending
  /\ Save(writing.session)
  /\ writing' = NoWrite
  /\ UNCHANGED <<claude_path, now, idCounter, ret, obs, wasStopped, opCount, dir, logs,
                 appended, watchVars, loopVars, queryVars, inflight>>

RaceFiles == {<<>>, UserRecord(0)}

\* a session created at time 0 and not started, and two conversation files
InitRace ==
  /\ InitTracker
  /\ sessionFile = [exists |-> TRUE, data |-> to_dict(NewSession(0, "None"))]
  /\ now = 0
  /\ dir = TRUE
  /\ \E c1 \in RaceFiles :
       logs = [f \in Files |->
                 IF f = "c1.jsonl" THEN [exists |-> TRUE, bytes |-> c1, mtime |-> 0]
                 ELSE [exists |-> TRUE, bytes |-> AssistantRecord(0, 1, 2), mtime |-> 0]]
  /\ appended = 0
  /\ InitHandler
  /\ InitWatcher

LoadOps == {"load", "get_or_create"}

NextRace ==
  \/ Tick
  \/ \E f \in SessionLogs : \E rec \in AgentRecords(now) : AgentAppend(f, rec)
  \/ \E f \in Files \ SessionLogs : FileVanishes(f)
  \/ \E op \in LoadOps : \E proc \in ProcResults : LoadBegin(op, proc)
  \/ LoadSort
  \/ LoadParse
  \/ LoadCheck
  \/ LoadCreate
  \/ \E op \in WriterOps : SaveOpen(op)
  \/ SaveWrite

SpecRace == InitRace /\ [][NextRace]_vars

\* ------------------------------------------------------------ properties
LoadReturned == obs.op = "load" /\ ret.kind = "session"

PersistedStatus == SessionStatus(sessionFile.data.status)

PersistedMetrics == from_dict(sessionFile.data).metrics

\* C1: once the persisted status is STOPPED, a load returns a session with
\* status STOPPED whatever the liveness result and the log activity are.
StoppedLoadsStopped ==
  (obs.op = "load" /\ sessionFile.exists /\ sessionFile.data.status = "stopped")
    => (ret.kind = "session" /\ ret.session.status = "STOPPED")

StoppedLoadsStoppedWitness ==
  /\ obs.op = "load" /\ sessionFile.exists /\ sessionFile.data.status = "stopped"
  /\ obs.proc = "found" /\ obs.recent
  /\ ret.session.status = "STOPPED"

\* C2: once the session has been persisted as STOPPED, no tracker operation
\* persists or returns it with another status.
StoppedIsOneWay ==
  wasStopped =>
    /\ sessionFile.data.status = "stopped"
    /\ ret.kind = "session" => ret.session.status = "STOPPED"

\* C3: for a prior status in READY, ACTIVE, PAUSED a load returns ACTIVE when
\* the process runs and there is recent activity, else PAUSED when the prior
\* status was ACTIVE, else the prior status.
LoadStatusTable ==
  (LoadReturned /\ PersistedStatus # "STOPPED") =>
    LET running == obs.proc = "found" IN
    /\ (running /\ obs.recent) => ret.session.status = "ACTIVE"
    /\ (~(running /\ obs.recent) /\ PersistedStatus = "ACTIVE")
         => ret.session.status = "PAUSED"
    /\ (~(running /\ obs.recent) /\ PersistedStatus # "ACTIVE")
         => ret.session.status = PersistedStatus

LoadStatusTableWitness ==
  /\ LoadReturned /\ PersistedStatus = "ACTIVE"
  /\ obs.proc = "found" /\ ~obs.recent
  /\ ret.session.status = "PAUSED"

\* C4: when the liveness query fails, a load of an ACTIVE session returns a
\* session (nothing is raised) whose status is PAUSED, whatever the activity.
LivenessFailureDemotes ==
  (obs.op = "load" /\ obs.proc = "error" /\ sessionFile.exists
     /\ sessionFile.data.status = "active")
    => (ret.kind = "session" /\ ret.session.status = "PAUSED")

LivenessFailureDemotesWitness ==
  /\ LoadReturned /\ obs.proc = "error" /\ obs.recent
  /\ sessionFile.data.status = "active"
  /\ ret.session.status = "PAUSED"

\* C5 as stated: when a load returns ACTIVE and at the next load (nothing but
\* loads in between) the process is not running, that load returns PAUSED.
ConsecutiveLoadsDemote ==
  (LoadReturned /\ obs.prevActive /\ obs.proc # "found")
    => ret.session.status = "PAUSED"

\* C5 amended: a load does not persist the status it returns, so the next
\* load starts from the persisted status again: with the process not running
\* it returns PAUSED when the persisted status is ACTIVE, and the persisted
\* status (READY or PAUSED) otherwise.
ConsecutiveLoadsFollowFile ==
  (LoadReturned /\ obs.prevActive /\ obs.proc # "found")
    => ret.session.status =
         (IF sessionFile.data.status = "active" THEN "PAUSED" ELSE PersistedStatus)

ConsecutiveLoadsFollowFileWitness ==
  /\ LoadReturned /\ obs.prevActive /\ obs.proc = "not_found"
  /\ sessionFile.data.status = "ready"
  /\ ret.session.status = "READY"

\* the aggregate of the log files as they are now, stated over the set of
\* interactions that pass the filter rather than as a fold
RECURSIVE ParsedLogs(_)
ParsedLogs(fs) ==
  IF fs = <<>> THEN <<>>
  ELSE (IF dir /\ logs[Head(fs)].exists
          THEN parse_conversation_file(logs[Head(fs)].bytes) ELSE <<>>)
       \o ParsedLogs(Tail(fs))

RECURSIVE SumSeq(_)
SumSeq(ns) == IF ns = <<>> THEN 0 ELSE Head(ns) + SumSeq(Tail(ns))

CurrentAggregate(since) ==
  LET passing == SelectSeq(ParsedLogs(FileOrder), LAMBDA i : i.timestamp > since)
      assistant == SelectSeq(passing, LAMBDA i : i.role = "assistant")
      stamps == {passing[k].timestamp : k \in 1..Len(passing)}
  IN [interactions |-> Len(assistant),
      tokens_in |-> SumSeq([k \in 1..Len(assistant) |-> assistant[k].tokens_in]),
      tokens_out |-> SumSeq([k \in 1..Len(assistant) |-> assistant[k].tokens_out]),
      first_timestamp |->
        IF stamps = {} THEN NoneT ELSE CHOOSE t \in stamps : \A u \in stamps : t <= u,
      last_timestamp |->
        IF stamps = {} THEN NoneT ELSE CHOOSE t \in stamps : \A u \in stamps : t >= u]

\* C6: every load that returns a session returns the aggregate of the
\* current log files since created_at, whether the log directory is
\* populated, empty or absent.
LoadMetricsAreAggregate ==
  LoadReturned => ret.session.metrics = CurrentAggregate(ret.session.created_at)

\* C7 as stated: a load of a STOPPED session returns the metrics persisted
\* with it, whatever was appended to the logs after the stop.
StoppedLoadKeepsPersistedMetrics ==
  (LoadReturned /\ sessionFile.data.status = "stopped")
    => ret.session.metrics = PersistedMetrics

\* C7 amended: a load of a STOPPED session returns status STOPPED, and its
\* metrics are recomputed from the current log files whenever the tracker's
\* reader has log data (records appended after the stop are counted); the
\* persisted metrics are returned only when it has none.
StoppedLoadRecomputesMetrics ==
  (LoadReturned /\ sessionFile.data.status = "stopped") =>
    /\ ret.session.status = "STOPPED"
    /\ ret.session.metrics =
         (IF has_claude_data(claude_path, dir)
            THEN CurrentAggregate(ret.session.created_at) ELSE PersistedMetrics)

StoppedLoadRecomputesMetricsWitness ==
  /\ LoadReturned /\ sessionFile.data.status = "stopped"
  /\ has_claude_data(claude_path, dir)
  /\ ret.session.metrics # PersistedMetrics
  /\ ret.session.metrics.interactions > PersistedMetrics.interactions

\* C8: for a file that was never truncated, after an incremental read the
\* interactions delivered so far are the full parse of the file, wherever the
\* earlier reads ended.
IncrementalEqualsFullParse ==
  \A f \in Files :
    (whist[f].fresh /\ ~whist[f].shrunk)
      => delivered[f] = parse_conversation_file(logs[f].bytes)

\* C9: an incremental read that finds the file smaller than the stored offset
\* restarts from offset 0: it delivers the records of the new file and leaves
\* the offset at the new end of file.
TruncationResetsOffset ==
  \A f \in Files :
    (whist[f].fresh /\ whist[f].readSize < whist[f].readFrom) =>
      /\ whist[f].readGot = parse_conversation_file(logs[f].bytes)
      /\ _file_positions[f] = Len(logs[f].bytes)

\* C10: a burst of events for one file, each less than the quiet period after
\* the one before, gets one read: none before a full quiet period has passed
\* since the last event, at most one after it, and while none has happened
\* the task that will perform it is pending.
DebounceOneReadPerBurst ==
  \A f \in Files :
    /\ whist[f].burstReads <= 1
    /\ whist[f].burstReads = 1
         => whist[f].lastReadAt >= whist[f].lastEvent + DebounceMs
    /\ (whist[f].lastEvent # NoneT /\ whist[f].burstReads = 0)
         => /\ _debounce_tasks[f].state = "sleeping"
            /\ _debounce_tasks[f].deadline = whist[f].lastEvent + DebounceMs

DebounceOneReadPerBurstWitness ==
  \E f \in Files :
    /\ whist[f].burstEvents >= 3
    /\ whist[f].burstReads = 1
    /\ whist[f].lastReadAt >= whist[f].lastEvent + DebounceMs

\* C11: after stop() has returned, no task that was still in its quiet
\* period fires: it stays asleep or is cancelled, and so passes nothing to the
\* callback.
StopCancelsPendingTimers ==
  _observer = "stopped" =>
    \A k \in pending_at_stop : loop_tasks[k].state \in {"sleeping", "cancelled"}

\* C12: a step that has started (timer fired, callbacks being invoked) is not
\* aborted by a later event for the same file: no task is cancelled after it
\* started its step.
StepIsAtomic ==
  \A k \in 1..Len(loop_tasks) :
    loop_tasks[k].state = "cancelled" => ~loop_tasks[k].started

\* C13: for each file at most one read-and-extract step is in progress: no
\* two tasks of the same file are inside their step at the same time.
OneStepPerFile ==
  \A j, k \in 1..Len(loop_tasks) :
    (j # k /\ loop_tasks[j].key = loop_tasks[k].key)
      => ~(loop_tasks[j].state = "awaiting" /\ loop_tasks[k].state = "awaiting")

OneStepPerFileWitness ==
  \E j, k \in 1..Len(loop_tasks) :
    /\ j < k /\ loop_tasks[j].key = loop_tasks[k].key
    /\ loop_tasks[j].started /\ loop_tasks[j].state = "cancelled"
    /\ loop_tasks[k].state = "awaiting"

\* C14: an event for one file leaves the pending task of every other file as
\* it is, and so does the firing of another file's timer; a pending task's
\* deadline is one quiet period after the last event for its own file.
TimersIndependentStep ==
  /\ \A ev \in Events :
       on_modified(ev) =>
         \A g \in Files \ {ev.src_path} : _debounce_tasks'[g] = _debounce_tasks[g]
  /\ \A f \in Files :
       TimerFire(f) =>
         \A g \in Files \ {f} : _debounce_tasks'[g] = _debounce_tasks[g]

TimersIndependent ==
  /\ [][TimersIndependentStep]_vars
  /\ [](\A f \in Files :
          _debounce_tasks[f].state = "sleeping"
            => _debounce_tasks[f].deadline = whist[f].lastEvent + DebounceMs)

TimersIndependentWitness ==
  /\ _debounce_tasks["c1.jsonl"].state = "sleeping"
  /\ _debounce_tasks["c2.jsonl"].state = "sleeping"
  /\ whist["c1.jsonl"].lastEvent < whist["c2.jsonl"].lastEvent
  /\ _debounce_tasks["c1.jsonl"].deadline = whist["c1.jsonl"].lastEvent + DebounceMs
  /\ loopTime >= _debounce_tasks["c1.jsonl"].deadline

\* a step of the loop in which the step of task k fails
StepFails(k) ==
  /\ loop_tasks[k].state \in {"sleeping", "awaiting"}
  /\ loop_tasks'[k].state = "done" /\ loop_tasks'[k].outcome = "error"

\* C15: when reading or parsing one file fails, the observer stays as it is,
\* the offset of every file is unchanged, every other task is unchanged, and
\* nothing is passed to the callback for another file.
FailureIsContainedStep ==
  \A k \in 1..Len(loop_tasks) :
    StepFails(k) =>
      /\ _observer' = _observer
      /\ Len(loop_tasks') = Len(loop_tasks)
      /\ \A j \in 1..Len(loop_tasks) : j # k => loop_tasks'[j] = loop_tasks[j]
      /\ \A g \in Files \ {loop_tasks[k].key} :
           _file_positions'[g] = _file_positions[g] /\ delivered'[g] = delivered[g]

FailureIsContained == [][FailureIsContainedStep]_vars

\* after a failed read of a file, a later event for that file was scheduled
\* and processed, while another file had been read
FailureIsContainedWitness ==
  \E j, k \in 1..Len(loop_tasks) :
    /\ j < k /\ loop_tasks[j].key = loop_tasks[k].key
    /\ loop_tasks[j].outcome = "error"
    /\ loop_tasks[k].state = "done" /\ loop_tasks[k].outcome = "ok"
    /\ delivered[loop_tasks[k].key] # <<>>
    /\ _observer = "alive"

\* a line that holds a user or assistant record with a well-formed message
RecordLine(line) ==
  LET t == strip(line) IN IsUserLine(t) \/ IsAssistantLine(t) \/ IsRoleLine(t)

\* a line that is not blank and is not JSON
NotJson(line) ==
  LET t == strip(line) IN
  /\ t # <<>>
  /\ ~(IsUserLine(t) \/ IsAssistantLine(t) \/ IsRoleLine(t) \/ IsOtherLine(t)
         \/ IsBadShapeLine(t) \/ IsListLine(t) \/ IsEmptyListLine(t))

\* every line of the file is a well-formed record, blank, or not JSON
OnlyJsonFailures(bytes) ==
  \A k \in 1..Len(readlines(bytes)) :
    LET line == readlines(bytes)[k] IN
    RecordLine(line) \/ IsOtherLine(strip(line)) \/ strip(line) = <<>> \/ NotJson(line)

\* the interactions of the user/assistant records of a file, in file order
RecordsOf(bytes) ==
  LET ls == SelectSeq(readlines(bytes), RecordLine)
  IN [k \in 1..Len(ls) |-> extract_interaction(parse_jsonl_line(ls[k]))]

\* the example file: a user record at T0, a line that is not JSON, an
\* assistant record at the next timestamp with usage 1 / 2
ExampleFile == UserRecord(0) \o Malformed \o AssistantRecord(1, 1, 2)

ExampleQueried ==
  /\ qret.op = "calculate_metrics" /\ qret.since = NoneT
  /\ logs["c1.jsonl"].bytes = ExampleFile /\ ~logs["c2.jsonl"].exists

\* C16: a line that is not JSON is skipped by itself: the full parse of a file
\* whose other lines are well-formed returns every user/assistant record in
\* file order, and the example file gives interactions 1, tokens 1 / 2, first
\* timestamp T0 and last timestamp that of the assistant record.
MalformedLineSkipped ==
  /\ (qret.op = "parse_conversation_file" /\ OnlyJsonFailures(logs[qret.file].bytes))
       => qret.value = RecordsOf(logs[qret.file].bytes)
  /\ ExampleQueried =>
       /\ ~qret.raised
       /\ qret.metrics = [interactions |-> 1, tokens_in |-> 1, tokens_out |-> 2,
                          first_timestamp |-> 0, last_timestamp |-> ClockStep]

MalformedLineSkippedWitness ==
  /\ ExampleQueried
  /\ qret.metrics.interactions = 1 /\ qret.metrics.last_timestamp = ClockStep

\* C17: a line that is JSON but not a well-formed record (not an object, or a
\* message of the wrong shape) is skipped by itself: the full parse of any
\* file returns every user/assistant record of it in file order.
MalformedRecordSkipped ==
  qret.op = "parse_conversation_file"
    => qret.value = RecordsOf(logs[qret.file].bytes)

\* C18: a record with an unparseable timestamp never makes a query fail:
\* the call of calculate_metrics or read_all_interactions just made returned,
\* and a load of the session over the same files returns the session.
BadTimestampNeverFails ==
  qret.op # "init" =>
    /\ ~qret.raised
    /\ LoadResult("found").kind = "session"

\* C19: every interaction extraction produces has role user or assistant.
ExtractedRoleIsUserOrAssistant ==
  \A k \in 1..Len(qret.value) : qret.value[k].role \in {"user", "assistant"}

\* C20: in the result of calculate_metrics, interactions and the token sums
\* are over the assistant-role interactions that pass the since filter, first
\* and last timestamp are the minimum and maximum over the interactions of
\* both roles that pass it.
MetricsCountAssistantSpanBoth ==
  (qret.op = "calculate_metrics" /\ ~qret.raised)
    => qret.metrics = CurrentAggregate(qret.since)

MetricsCountAssistantSpanBothWitness ==
  /\ qret.op = "calculate_metrics" /\ ~qret.raised /\ qret.since = 0
  /\ logs["c2.jsonl"].exists
  /\ \E k \in 1..Len(parse_conversation_file(logs["c1.jsonl"].bytes)) :
       parse_conversation_file(logs["c1.jsonl"].bytes)[k].role = "user"
  /\ qret.metrics.interactions = 1
  /\ qret.metrics.first_timestamp = ClockStep
  /\ qret.metrics.last_timestamp = 2 * ClockStep

\* the interactions of all log files, and those later than since
AllParsed == ParsedLogs(FileOrder)

LaterThan(since) == {k \in 1..Len(AllParsed) : AllParsed[k].timestamp > since}

\* C21: with a since, calculate_metrics counts and read_all_interactions
\* returns exactly the interactions whose timestamp is later than since: one
\* at since itself is left out, a later one is kept; a timestamp without a
\* zone is compared by its UTC value.
SinceIsExclusive ==
  /\ (qret.op = "calculate_metrics" /\ ~qret.raised /\ qret.since # NoneT) =>
       /\ qret.metrics.interactions =
            Cardinality({k \in LaterThan(qret.since) : AllParsed[k].role = "assistant"})
       /\ (qret.metrics.first_timestamp = NoneT) <=> (LaterThan(qret.since) = {})
       /\ qret.metrics.first_timestamp # NoneT
            => qret.metrics.first_timestamp > qret.since
  /\ (qret.op = "read_all_interactions" /\ ~qret.raised /\ qret.since # NoneT
        /\ qret.limit = NoneLimit) =>
       /\ \A k \in 1..Len(qret.value) : qret.value[k].timestamp > qret.since
       /\ Len(qret.value) = Cardinality(LaterThan(qret.since))

SinceIsExclusiveWitness ==
  /\ qret.op = "calculate_metrics" /\ ~qret.raised /\ qret.since = 0
  /\ \E k \in 1..Len(AllParsed) : AllParsed[k].timestamp = qret.since
  /\ \E k \in 1..Len(AllParsed) :
       AllParsed[k].timestamp > qret.since /\ AllParsed[k].tzinfo = "None"
  /\ qret.metrics.first_timestamp > qret.since

\* every order in which the files listed can be visited
Orderings(fs) ==
  {p \in [1..Len(fs) -> {fs[k] : k \in 1..Len(fs)}] :
     \A j, k \in 1..Len(fs) : j # k => p[j] # p[k]}

\* C22: the interactions and token totals calculate_metrics returns are the
\* same for every order of the file list.
MetricsOrderIndependent ==
  (qret.op = "calculate_metrics" /\ ~qret.raised) =>
    \A order \in Orderings(get_conversation_files(get_claude_project_path(dir), dir, logs)) :
      LET r == FoldFiles([metrics |-> ZeroMetrics, tzinfo |-> "unset", raised |-> FALSE],
                         order, logs, qret.since)
      IN /\ ~r.raised
         /\ r.metrics.interactions = qret.metrics.interactions
         /\ r.metrics.tokens_in = qret.metrics.tokens_in
         /\ r.metrics.tokens_out = qret.metrics.tokens_out

MetricsOrderIndependentWitness ==
  /\ qret.op = "calculate_metrics" /\ ~qret.raised
  /\ Cardinality(Orderings(get_conversation_files(get_claude_project_path(dir), dir, logs))) = 2
  /\ \A f \in Files :
       \E k \in 1..Len(parse_conversation_file(logs[f].bytes)) :
         parse_conversation_file(logs[f].bytes)[k].role = "assistant"
  /\ qret.metrics.interactions = 2
  /\ qret.metrics.tokens_in = 4 /\ qret.metrics.tokens_out = 6

\* C23: a calculate_metrics or a load repeated over unchanged log files
\* returns the metrics the call before it returned (and raises if that one
\* raised): nothing is carried over from one call to the next.
MetricsRecomputedStep ==
  (/\ qret.op \in {"calculate_metrics", "load"}
   /\ qret'.op = qret.op /\ qret'.since = qret.since
   /\ qret'.calls = qret.calls + 1)
    => (qret'.metrics = qret.metrics /\ qret'.raised = qret.raised)

TailEqualsFullParseLast ==
  (qret.op = "get_latest_interaction" /\ Len(logs[qret.file].bytes) <= TailWindow) =>
    LET full == parse_conversation_file(logs[qret.file].bytes)
    IN qret.value = IF full = <<>> THEN <<>> ELSE <<full[Len(full)]>>

\* C25: read_all_interactions returns the interactions that pass the since
\* filter, newest first, and with a limit N >= 0 exactly the first
\* min(N, total) of them.
ReadAllIsCappedNewestFirst ==
  (qret.op = "read_all_interactions" /\ ~qret.raised) =>
    LET total == IF qret.since = NoneT THEN Len(AllParsed)
                 ELSE Cardinality(LaterThan(qret.since))
    IN /\ \A j, k \in 1..Len(qret.value) :
            j < k => qret.value[j].timestamp >= qret.value[k].timestamp
       /\ Len(qret.value) =
            IF qret.limit = NoneLimit THEN total ELSE Min(qret.limit, total)

\* C27: a project with no log directory is "no data", not an error: the file
\* list is empty, calculate_metrics returns all-zero metrics with absent
\* timestamps, read_all_interactions returns an empty list, recent activity is
\* false, and load does not fail.
NoLogDirIsNoData ==
  ~dir =>
    LET path == claude_reader(claude_path, dir)
        m == calculate_metrics(path, dir, logs, NoneT)
        all == read_all_interactions(path, dir, logs, NoneT, NoneLimit)
    IN /\ get_conversation_files(path, dir, logs) = <<>>
       /\ m.metrics = ZeroMetrics /\ ~m.raised
       /\ all.value = <<>> /\ ~all.raised
       /\ ~get_recent_activity(path, dir, logs, now)
       /\ \A proc \in ProcResults : LoadResult(proc).kind # "TypeError"
       /\ obs.op = "load" =>
            /\ ret.kind = IF sessionFile.exists THEN "session" ELSE "None"
            /\ ~obs.recent

\* a load has returned a session after the log directory it had found was
\* removed
NoLogDirIsNoDataWitness ==
  /\ ~dir /\ claude_path = "dir"
  /\ obs.op = "load" /\ ret.kind = "session"

\* C30: the session id is assigned lazily and is stable: it is null from create
\* until the first start, the first start assigns a non-null id, and every
\* later operation (start, pause, stop, load, link_plan) leaves it unchanged.
IdIsLazyAndStableStep ==
  LET created == obs'.op = "create" /\ opCount' = opCount + 1
      started == obs'.op = "start" /\ ret'.kind = "session"
      idBefore == IF sessionFile.exists THEN sessionFile.data.id ELSE NoneId
      idAfter == sessionFile'.data.id
  IN /\ created => idAfter = NoneId /\ ret'.session.id = NoneId
     /\ started => idAfter # NoneId
     /\ (idBefore = NoneId /\ ~started) => idAfter = NoneId
     /\ (idBefore # NoneId /\ ~created) => idAfter = idBefore
     /\ (ret'.kind = "session" /\ obs'.op # "init") => ret'.session.id = idAfter

IdIsLazyAndStable == [][IdIsLazyAndStableStep]_vars

\* a session that was started earlier has been started again and holds the
\* id it was given then
IdIsLazyAndStableWitness ==
  /\ obs.op = "start" /\ ret.kind = "session"
  /\ ret.session.started_at # now
  /\ ret.session.id # NoneId /\ sessionFile.data.id = ret.session.id

\* C26: if a log file vanishes at any point during a metrics or status query
\* (while listing, while checking recency, or while parsing), the query
\* completes without raising.
VanishedFileNeverRaises ==
  inflight.pc = "done" => inflight.kind # "FileNotFoundError"

\* C28: the status and the metrics a load returns are computed from the same
\* snapshot of the log files, even when the agent appends a record while the
\* load is running: when the status was decided on the logs and no log file is
\* missing, the metrics returned are those of the logs the status was decided
\* on.
LoadUsesOneSnapshot ==
  (/\ LoadReturned /\ inflight.op = "load"
   /\ is_claude_running(obs.proc) /\ ret.session.status # "STOPPED"
   /\ \A f \in Files : logs[f].exists) =>
    ret.session.metrics =
      calculate_metrics(claude_reader(claude_path, dir), dir, logs,
                        ret.session.created_at).metrics

\* C29: a load or get_or_create that runs while another process saves the
\* session returns the session as it was before or after the save, never "no
\* session", and get_or_create never creates a session over an existing one.
ConcurrentLoadSeesSession ==
  inflight.pc \in {"create", "done"} =>
    inflight.kind # "None" /\ ~inflight.created

\* C38: in every result of calculate_metrics, first_timestamp and
\* last_timestamp are both absent or both present, present exactly when at
\* least one interaction of either role passed the since filter, and then
\* first_timestamp <= last_timestamp, so duration_seconds is never negative.
TimestampsComeInPairs ==
  (qret.op = "calculate_metrics" /\ ~qret.raised) =>
    LET m == qret.metrics
    IN /\ (m.first_timestamp = NoneT) = (m.last_timestamp = NoneT)
       /\ (m.first_timestamp # NoneT) = (LaterThan(qret.since) # {})
       /\ m.first_timestamp # NoneT => m.first_timestamp <= m.last_timestamp
       /\ duration_seconds(m) >= 0

\* metrics with a span, made by interactions none of which is counted
TimestampsComeInPairsWitness ==
  /\ qret.op = "calculate_metrics" /\ ~qret.raised
  /\ qret.metrics.interactions = 0
  /\ qret.metrics.first_timestamp # NoneT
  /\ qret.metrics.first_timestamp < qret.metrics.last_timestamp
  /\ duration_seconds(qret.metrics) > 0

\* C36: load() never writes the session file or the session-id file: what it
\* recomputes is on the returned object only, and the persisted status after
\* a load is the persisted status before it.
LoadWritesNothingStep ==
  obs'.op = "load" =>
    /\ sessionFile' = sessionFile
    /\ sessionIdFile' = sessionIdFile
    /\ ret'.kind = "session" => SessionStatus(sessionFile'.data.status) = PersistedStatus

LoadWritesNothing == [][LoadWritesNothingStep]_vars

\* a load has returned a status and metrics that differ from the persisted ones
LoadWritesNothingWitness ==
  /\ LoadReturned
  /\ ret.session.status = "ACTIVE" /\ PersistedStatus = "READY"
  /\ ret.session.metrics # PersistedMetrics

\* C37: link_plan changes only the plan_file field of the persisted session:
\* status, id, timestamps and metrics are persisted as they were.
LinkPlanChangesOnlyPlanStep ==
  (obs'.op = "link_plan" /\ opCount' = opCount + 1 /\ sessionFile.exists) =>
    [sessionFile'.data EXCEPT !.plan_file = sessionFile.data.plan_file]
      = sessionFile.data

LinkPlanChangesOnlyPlan == [][LinkPlanChangesOnlyPlanStep]_vars

\* C31: the exclusion rule is the same on both paths: no interaction of a file
\* whose name starts with "agent-" is counted in metrics, returned by
\* read_all_interactions, used for recent activity or forwarded to the
\* callback, and an event for a directory or for a file without the .jsonl
\* extension never schedules a read.
\* The queries read the directory only, so they are compared with the
\* conversations for every directory the model reaches, in the states where
\* no task has been created yet; the tasks are looked at in every state.
QueriesExcludeAgentFiles ==
  LET path == get_claude_project_path(dir)
      fs == get_conversation_files(path, dir, logs)
      m == calculate_metrics(path, dir, logs, NoneT)
      all == read_all_interactions(path, dir, logs, NoneT, NoneLimit)
  IN /\ \A k \in 1..Len(fs) : fs[k] \in Files
     /\ ~m.raised /\ m.metrics = CurrentAggregate(NoneT)
     /\ ~all.raised /\ Len(all.value) = Len(AllParsed)
     /\ \A k \in 1..Len(all.value) :
          \E j \in 1..Len(AllParsed) : all.value[k] = AllParsed[j]
     /\ get_recent_activity(path, dir, logs, now) =>
          \E f \in Files :
            /\ logs[f].exists
            /\ get_latest_interaction(logs[f].bytes) # NoInteraction
            /\ get_latest_interaction(logs[f].bytes).timestamp > now - RecentMinutes

FirstReadDeliversAll ==
  \A f \in Files :
    LET ks == {k \in 1..Len(loop_tasks) : loop_tasks[k].key = f /\ loop_tasks[k].started}
    IN (Cardinality(ks) = 1 /\ \A k \in ks : loop_tasks[k].state = "done")
         => delivered[f] = RecordsOf(logs[f].bytes)

\* C33: when the file holds only whole lines at every read and no step fails,
\* a firing passes to the callback the interactions of the bytes between the
\* stored offset and end of file, once each and in file order, and stores the
\* end of file as the offset; over any appends and firings what has been
\* delivered is the full parse of the file.
WholeLinesDeliverFullParse ==
  \A f \in Files :
    /\ delivered[f] =
         parse_conversation_file(SubSeq(logs[f].bytes, 1, _file_positions[f]))
    /\ whist[f].fresh =>
         /\ whist[f].readGot =
              parse_conversation_file(
                SubSeq(logs[f].bytes, whist[f].readFrom + 1, Len(logs[f].bytes)))
         /\ _file_positions[f] = Len(logs[f].bytes)
         /\ delivered[f] = parse_conversation_file(logs[f].bytes)

\* a second firing has read the record appended after the first one
WholeLinesDeliverFullParseWitness ==
  \E f \in Files :
    /\ whist[f].fresh /\ whist[f].readFrom > 0 /\ whist[f].readGot # <<>>
    /\ Len(delivered[f]) > Len(whist[f].readGot)

\* C34: a read-and-extract step that ends with an exception leaves the stored
\* offset of the file as it was, and the next firing reads from that offset
\* again and delivers again what the failed step had delivered.
FailedStepIsRepeatedStep ==
  \A f \in Files :
    (_debounce_tasks[f].state = "sleeping" /\ _debounce_tasks'[f].state = "done") =>
      LET h == whist[f]
          r == IncrementalRead(logs[f].bytes, _file_positions[f])
          failed == ~logs[f].exists \/ ProcessRaises(r.new_content)
          prevFailed ==
            h.fresh /\ ProcessRaises(SubSeq(logs[f].bytes, h.readFrom + 1, h.readSize))
      IN /\ failed => _file_positions' = _file_positions
         /\ prevFailed =>
              /\ whist'[f].readFrom = h.readFrom
              /\ delivered'[f] = delivered[f] \o h.readGot

FailedStepIsRepeated == [][FailedStepIsRepeatedStep]_vars

\* a step that failed after the stored offset had moved has been repeated:
\* the record before the raising line has been delivered twice
FailedStepIsRepeatedWitness ==
  \E f \in Files :
    LET h == whist[f]
    IN /\ h.fresh /\ h.readFrom > 0 /\ h.readGot # <<>>
       /\ _file_positions[f] = h.readFrom
       /\ ProcessRaises(SubSeq(logs[f].bytes, h.readFrom + 1, h.readSize))
       /\ delivered[f] =
            parse_conversation_file(SubSeq(logs[f].bytes, 1, h.readFrom))
              \o h.readGot \o h.readGot

\* a line on which extraction raises lies between the stored offset of f and
\* the end of the file
RaisingLineUnread(f) ==
  /\ logs[f].exists
  /\ ProcessRaises(IncrementalRead(logs[f].bytes, _file_positions[f]).new_content)

\* C35: a line on which extraction raises does not stall the file: when
\* modification events for the file keep occurring, the stored offset
\* eventually moves past the line.
RaisingLineIsPassed ==
  \A f \in Files :
    ([]<>(_debounce_tasks[f].state = "sleeping"))
      => (RaisingLineUnread(f) ~> ~RaisingLineUnread(f))

====
